---- MODULE Spec2Model ----
(***************************************************************************)
(* SurfManager core: the process-termination controller                   *)
(* (app/core/process_killer.py) and the cancellable transfer workers      *)
(* (app/core/workers.py).                                                  *)
(*                                                                         *)
(* Time is counted in ticks of half a second.  Strings that are matched   *)
(* or sorted are sequences of code points.                                 *)
(***************************************************************************)
EXTENDS Integers, Sequences, FiniteSets, TLC

(***************************************************************************)
(* Bounds of the model.                                                    *)
(***************************************************************************)
NProcs == 2            \* process slots of the OS process table
MaxRetriesBound == 2   \* max_retries is drawn from 0..MaxRetriesBound
MaxQueries == 3            \* get_running_processes calls on one ProcessKiller

(***************************************************************************)
(* Program constants, in ticks of 0.5 s.                                   *)
(***************************************************************************)
CacheDuration == 4     \* self._cache_duration = 2.0
KillAllSettle == 1     \* time.sleep(0.5) in kill_all
ForceWait == 4         \* proc.wait(timeout=2)
NotRunningSettle == 4  \* time.sleep(2) when the app is not running
ClosedSettle == 6      \* time.sleep(3) after a successful kill_all
RetrySettle == 4       \* time.sleep(2) between attempts
FinalSettle == 6       \* time.sleep(3) after exhausted retries

Procs == 1..NProcs

(***************************************************************************)
(* Strings as code points.                                                 *)
(***************************************************************************)
StrCode == <<67, 111, 100, 101>>            \* "Code"
StrCodeLower == <<99, 111, 100, 101>>       \* "code"
StrCodeHelper == <<99, 111, 100, 101, 104>> \* "codeh"
StrVim == <<118, 105, 109>>                 \* "vim"
StrCodeUpper == <<67, 79, 68, 69>>          \* "CODE"

\* str.lower() on one code point (ASCII letters)
LowerChar(c) == IF c >= 65 /\ c <= 90 THEN c + 32 ELSE c

\* str.lower()
Lower(s) == [i \in 1..Len(s) |-> LowerChar(s[i])]

\* needle in hay (substring test)
Contains(hay, needle) ==
    \E i \in 0..(Len(hay) - Len(needle)) :
        SubSeq(hay, i + 1, i + Len(needle)) = needle

\* Python's order on strings: lexicographic by code point
RECURSIVE StrLess(_, _)
StrLess(a, b) ==
    IF b = <<>> THEN FALSE
    ELSE IF a = <<>> THEN TRUE
    ELSE IF a[1] # b[1] THEN a[1] < b[1]
    ELSE StrLess(Tail(a), Tail(b))

\* insert x into the sorted sequence s, after the elements not greater
RECURSIVE InsertSorted(_, _)
InsertSorted(x, s) ==
    IF s = <<>> THEN <<x>>
    ELSE IF StrLess(x, s[1]) THEN <<x>> \o s
    ELSE <<s[1]>> \o InsertSorted(x, Tail(s))

\* sorted(process_names)
RECURSIVE Sorted(_)
Sorted(s) == IF s = <<>> THEN <<>> ELSE InsertSorted(s[Len(s)], Sorted(SubSeq(s, 1, Len(s) - 1)))

\* cache_key = tuple(sorted(process_names))
CacheKey(names) == Sorted(names)

\* image name of each process of the table
ImageName(p) ==
    CASE p = 1 -> StrCode
      [] p = 2 -> StrCodeHelper
      [] p = 3 -> StrVim
      [] OTHER -> StrCodeUpper

\* any(target.lower() in proc_name.lower() for target in process_names)
Matches(names, p) ==
    \E i \in 1..Len(names) : Contains(Lower(ImageName(p)), Lower(names[i]))

\* the name lists callers pass
NameLists == { <<StrCodeLower>>, <<StrVim, StrCode>> }

\* the timeouts callers pass, in seconds
Timeouts == {1}

\* seconds to ticks
Ticks(seconds) == 2 * seconds

VARIABLES
    procState,   \* OS process table: "unborn", "alive" or "dead" per slot
    psutil,      \* PSUTIL_AVAILABLE
    cache,       \* self._process_cache: cache key -> list of handles
    ttl,         \* ticks left until self._cache_expiry (0: expired)
    calls,       \* top-level calls made so far
    op,          \* top-level operation in progress, or "idle"
    names,       \* process_names of the operation
    timeout,     \* timeout of the operation, seconds
    maxRetries,  \* max_retries of smart_close
    ret,         \* result of the last completed top-level operation
    lastQuery,   \* outcome of the latest get_running_processes call
    scPc, scAttempt, scTrace, scRet,
    kaPc, kaRunning, kaRemaining, kaIdx, kaKilled, kaTrace, kaRet,
    kpPc, kpProc, kpTimeout, kpTrace, kpRet, kpExc,
    wfPc,        \* position of wait_for_exit
    wfElapsed,   \* ticks since its start = time.time()
    wfPolls      \* what each of its is_running polls answered

envVars == <<procState, psutil>>
cacheVars == <<cache, ttl>>
callVars == <<calls, op, names, timeout, maxRetries, ret>>
scVars == <<scPc, scAttempt, scTrace, scRet>>
kaVars == <<kaPc, kaRunning, kaRemaining, kaIdx, kaKilled, kaTrace, kaRet>>
kpVars == <<kpPc, kpProc, kpTimeout, kpTrace, kpRet, kpExc>>
waitVars == <<wfPc, wfElapsed, wfPolls>>
killerVars == <<envVars, cacheVars, callVars, lastQuery, scVars, kaVars, kpVars, waitVars>>

\* state of the transfer workers
VARIABLES
    wKind,       \* "backup" or "restore"
    wItems,      \* self.backup_items
    wAddons,     \* self.addon_paths
    fs,          \* the file system: location -> node
    cancelled,   \* self._cancelled
    wPc,         \* position of run
    wIdx,        \* loop index, 1-based
    wList,       \* the listing a loop runs over
    wAddonName,  \* the local addon_name, "unbound" before its first assignment
    wFault,      \* what went wrong in the run other than a missing item
    cancelAt,    \* position of run when cancel() was called
    events       \* the signals emitted, in order

workerVars == <<wKind, wItems, wAddons, fs, cancelled, wPc, wIdx, wList,
                wAddonName, wFault, cancelAt, events>>

\* state of the thread that run_in_thread builds for a worker
VARIABLES
    thPc,         \* "none", "built", "started", "running", "exec" or "finished"
    thDispatched, \* finished signals whose connected slots have been called
    thQuit,       \* thread.quit: "no", "posted" (queued call) or "exit" (called)
    wDel,         \* the worker: "no" or "later" (deleteLater called)
    thDel         \* the thread: "no", "posted" (queued call) or "later"

threadVars == <<thPc, thDispatched, thQuit, wDel, thDel>>

\* state of a handler of the account tab
VARIABLES
    guiPc,       \* position of the handler
    guiKind,     \* "backup" (_on_app_click) or "restore" (_load_session)
    guiFound,    \* the handler's get_running_processes found something
    guiAnswer    \* the button pressed in the "App Running" box

guiVars == <<guiPc, guiKind, guiFound, guiAnswer>>

\* what the properties remember, and a caller that queries one ProcessKiller
\* several times
VARIABLES
    fs0,         \* the file system as it was when the worker was built
    qLeft,       \* get_running_processes calls the caller has yet to make
    qBorn,       \* cache key -> ticks since its entry was stored
    qSeen        \* the latest of these calls: its names, its answer, the
                 \* processes that matched when it was made, and whether
                 \* an enumeration would run to the end

queryVars == <<qLeft, qBorn, qSeen>>

\* a second worker, started while the account tab still holds the first
VARIABLES
    peer         \* the worker that is not executing now: its own fields and
                 \* signals, or NoPeer

\* what the account tab keeps about the restores it launched
VARIABLES
    tab          \* restore_name: self._restore_name, as the number of the
                 \* launch that set it (0: not set); cur: the number of the
                 \* launch whose worker is executing; said: what
                 \* _on_restore_finished reported, with the launch it answered

moreVars == <<fs0, queryVars, peer, tab>>

\* what the actions of smart_close, kill_all and kill_process, and what
\* those of a worker, leave alone
notKiller == <<workerVars, waitVars, threadVars, guiVars, moreVars>>
notWorker == <<killerVars, threadVars, guiVars, moreVars>>

NoRet == [ok |-> FALSE, msg |-> "none", n |-> 0]
NoTopRet == [op |-> "none", ok |-> FALSE, msg |-> "none", n |-> 0]
Result(ok, msg, n) == [ok |-> ok, msg |-> msg, n |-> n]
NoQuery == [n |-> 0, enum |-> FALSE, age |-> CacheDuration, warn |-> FALSE]
NoPeer == [kind |-> "none"]
NoTab == [restore_name |-> 0, cur |-> 1, said |-> {}]
NoSeen == [names |-> <<>>, res |-> <<>>, match |-> {}, full |-> FALSE]

\* time.sleep / a wait that lasted d ticks, seen from the cache expiry
After(t, d) == IF t > d THEN t - d ELSE 0

\* d ticks pass: the cache expiry comes closer and the latest call of
\* get_running_processes gets older
Elapse(d) ==
    /\ ttl' = After(ttl, d)
    /\ lastQuery' = [lastQuery EXCEPT
                        !.age = IF @ + d > CacheDuration THEN CacheDuration ELSE @ + d]

(***************************************************************************)
(* get_running_processes                                                   *)
(***************************************************************************)
\* a cache check that takes every cached handle for a live process
StillRunning_Always(h) == TRUE

\* a liveness check that passes for every process that was ever started
StillRunning_OnceStarted(h) == procState[h] # "unborn"

\* p['process_obj'].is_running()
StillRunning(h) == procState[h] = "alive"

RECURSIVE EnumerateFrom(_, _, _)
EnumerateFrom(nms, p, upto) ==
    IF p > upto THEN <<>>
    ELSE (IF procState[p] = "alive" /\ Matches(nms, p) THEN <<p>> ELSE <<>>)
         \o EnumerateFrom(nms, p + 1, upto)

\* the loop over psutil.process_iter; it stops early, keeping what it has,
\* when the iteration raises after the first `upto` slots
Enumerate(nms, upto) == EnumerateFrom(nms, 1, upto)

\* where an enumeration can stop: at the end, or at a live process whose
\* entry raises
EnumStops == {NProcs} \cup {u \in 0..(NProcs - 1) : procState[u + 1] = "alive"}

\* get_running_processes without the guard of lines 40-42
GetRunningProcesses_NoGuard(nms, upto) ==
    LET key == CacheKey(nms)
        hit == ttl > 0 /\ key \in DOMAIN cache
        valid == IF hit THEN SelectSeq(cache[key], StillRunning) ELSE <<>>
        running == Enumerate(nms, upto)
    IN  IF valid # <<>>
        THEN [res |-> valid, cache |-> cache, ttl |-> ttl, enum |-> FALSE, warn |-> FALSE]
        ELSE IF running # <<>>
        THEN [res |-> running,
              cache |-> [k \in DOMAIN cache \cup {key} |->
                            IF k = key THEN running ELSE cache[k]],
              ttl |-> CacheDuration, enum |-> TRUE, warn |-> FALSE]
        ELSE [res |-> <<>>, cache |-> cache, ttl |-> ttl, enum |-> TRUE, warn |-> FALSE]

\* get_running_processes without the cache check of lines 48-58
GetRunningProcesses_NoCache(nms, upto) ==
    IF ~psutil
    THEN [res |-> <<>>, cache |-> cache, ttl |-> ttl, enum |-> FALSE, warn |-> TRUE]
    ELSE LET key == CacheKey(nms)
             running == Enumerate(nms, upto)
         IN  IF running # <<>>
             THEN [res |-> running,
                   cache |-> [k \in DOMAIN cache \cup {key} |->
                                 IF k = key THEN running ELSE cache[k]],
                   ttl |-> CacheDuration, enum |-> TRUE, warn |-> FALSE]
             ELSE [res |-> <<>>, cache |-> cache, ttl |-> ttl, enum |-> TRUE, warn |-> FALSE]

\* get_running_processes returning what is left of a cached list even when
\* nothing is left of it
GetRunningProcesses_TrustsHit(nms, upto) ==
    IF ~psutil
    THEN [res |-> <<>>, cache |-> cache, ttl |-> ttl, enum |-> FALSE, warn |-> TRUE]
    ELSE LET key == CacheKey(nms)
             hit == ttl > 0 /\ key \in DOMAIN cache
             valid == IF hit THEN SelectSeq(cache[key], StillRunning) ELSE <<>>
             running == Enumerate(nms, upto)
         IN  IF hit
             THEN [res |-> valid, cache |-> cache, ttl |-> ttl, enum |-> FALSE, warn |-> FALSE]
             ELSE IF running # <<>>
             THEN [res |-> running,
                   cache |-> [k \in DOMAIN cache \cup {key} |->
                                 IF k = key THEN running ELSE cache[k]],
                   ttl |-> CacheDuration, enum |-> TRUE, warn |-> FALSE]
             ELSE [res |-> <<>>, cache |-> cache, ttl |-> ttl, enum |-> TRUE, warn |-> FALSE]

\* get_running_processes(process_names): result, new cache, new expiry
GetRunningProcesses(nms, upto) ==
    IF ~psutil
    THEN [res |-> <<>>, cache |-> cache, ttl |-> ttl, enum |-> FALSE, warn |-> TRUE]
    ELSE LET key == CacheKey(nms)
             hit == ttl > 0 /\ key \in DOMAIN cache
             valid == IF hit THEN SelectSeq(cache[key], StillRunning) ELSE <<>>
             running == Enumerate(nms, upto)
         IN  IF valid # <<>>
             THEN [res |-> valid, cache |-> cache, ttl |-> ttl, enum |-> FALSE, warn |-> FALSE]
             ELSE IF running # <<>>
             THEN [res |-> running,
                   cache |-> [k \in DOMAIN cache \cup {key} |->
                                 IF k = key THEN running ELSE cache[k]],
                   ttl |-> CacheDuration, enum |-> TRUE, warn |-> FALSE]
             ELSE [res |-> <<>>, cache |-> cache, ttl |-> ttl, enum |-> TRUE, warn |-> FALSE]

\* is_running taking one match for none
IsRunning_MoreThanOne(r) == Len(r.res) > 1

\* line 84: len(self.get_running_processes(process_names)) > 0
IsRunning(r) == Len(r.res) > 0

\* the state change of one get_running_processes call
Query(r) ==
    /\ cache' = r.cache
    /\ ttl' = r.ttl
    /\ lastQuery' = [n |-> Len(r.res), enum |-> r.enum, age |-> 0, warn |-> r.warn]

(***************************************************************************)
(* The operating system: processes start and exit on their own, and time   *)
(* passes between any two statements.                                      *)
(***************************************************************************)
\* One operation runs on a freshly built ProcessKiller (the GUI builds one
\* per action: tab_account.py 309, 1045).  A change of the environment is
\* followed where the next statement of the program reads the process table
\* or the clock; the statements in between commute with it.
CanCall == op = "idle" /\ calls = 0
Observed ==
    \/ CanCall
    \/ kpPc \in {"check", "terminate", "wait", "kill", "wait2"}
    \/ kpPc = "idle" /\ kaPc \in {"query1", "query2", "query3", "force", "forcewait"}
    \/ kaPc = "idle" /\ scPc \in {"check", "final"}
    \/ wfPc \in {"test", "poll"}
    \/ qLeft > 0

ProcSpawn(p) ==
    /\ Observed
    /\ procState[p] = "unborn"
    /\ procState' = [procState EXCEPT ![p] = "alive"]
    /\ UNCHANGED <<psutil, cacheVars, callVars, lastQuery, scVars, kaVars, kpVars>>
    /\ UNCHANGED notKiller

ProcExit(p) ==
    /\ Observed
    /\ procState[p] = "alive"
    /\ procState' = [procState EXCEPT ![p] = "dead"]
    /\ UNCHANGED <<psutil, cacheVars, callVars, lastQuery, scVars, kaVars, kpVars>>
    /\ UNCHANGED notKiller

Tick ==
    /\ Observed
    /\ \/ ttl > 0
       \/ lastQuery.age < CacheDuration
       \/ wfPc # "idle" /\ wfElapsed < Ticks(timeout)
    /\ Elapse(1)
    /\ wfElapsed' = IF wfPc # "idle" /\ wfElapsed < Ticks(timeout)
                    THEN wfElapsed + 1 ELSE wfElapsed
    /\ UNCHANGED <<envVars, cache, callVars, scVars, kaVars, kpVars, wfPc, wfPolls>>
    /\ UNCHANGED <<workerVars, threadVars, guiVars, moreVars>>

(***************************************************************************)
(* kill_process(proc_info, timeout)                                        *)
(***************************************************************************)
\* the frame of kill_process is dropped once its result is consumed
ResetKillProcess ==
    /\ kpPc' = "idle" /\ kpProc' = 0 /\ kpTimeout' = 0 /\ kpTrace' = <<>>
    /\ kpRet' = NoRet /\ kpExc' = "none"

\* entering kill_process
StartKillProcess(h, t) ==
    /\ kpPc' = "check"
    /\ kpProc' = h
    /\ kpTimeout' = t
    /\ kpTrace' = <<>>
    /\ kpRet' = NoRet
    /\ kpExc' = "none"

\* leaving kill_process with a result
KpReturn(ok, msg) ==
    /\ kpPc' = "ret"
    /\ kpRet' = Result(ok, msg, 0)

\* what proc.terminate() and proc.kill() can do: raise NoSuchProcess on a
\* process that is gone; pass, or raise AccessDenied or another error
SignalOutcomes(h) ==
    IF StillRunning(h) THEN {"none", "AccessDenied", "Exception"}
    ELSE {"NoSuchProcess"}

\* KpExcept treating a vanished process as a failure
KpExcept_NoSuchFails(exc) ==
    /\ kpExc' = exc
    /\ CASE exc = "AccessDenied" -> KpReturn(FALSE, "Access denied")
         [] OTHER -> KpReturn(FALSE, "error")

\* lines 128-136: the except clauses of kill_process
KpExcept(exc) ==
    /\ kpExc' = exc
    /\ CASE exc = "NoSuchProcess" -> KpReturn(TRUE, "no longer exists")
         [] exc = "AccessDenied" -> KpReturn(FALSE, "Access denied")
         [] OTHER -> KpReturn(FALSE, "error")

\* lines 96-106: the psutil guard and the is_running check
KP_Check ==
    /\ kpPc = "check"
    /\ IF ~psutil
       THEN KpReturn(FALSE, "psutil not available") /\ UNCHANGED kpTrace
       ELSE /\ kpTrace' = Append(kpTrace, "is_running")
            /\ IF ~StillRunning(kpProc)
               THEN KpReturn(TRUE, "already terminated")
               ELSE kpPc' = "terminate" /\ UNCHANGED kpRet
    /\ UNCHANGED <<envVars, cacheVars, callVars, lastQuery, scVars, kaVars,
                   kpProc, kpTimeout, kpExc>>
    /\ UNCHANGED notKiller

\* line 110: proc.terminate()
KP_Terminate ==
    /\ kpPc = "terminate"
    /\ kpTrace' = Append(kpTrace, "terminate")
    /\ \E exc \in SignalOutcomes(kpProc) :
          IF exc = "none"
          THEN kpPc' = "wait" /\ UNCHANGED <<kpRet, kpExc>>
          ELSE KpExcept(exc)
    /\ UNCHANGED <<envVars, cacheVars, callVars, lastQuery, scVars, kaVars,
                   kpProc, kpTimeout>>
    /\ UNCHANGED notKiller

\* KP_Wait reporting the failure at the first timeout, without escalating
KP_Wait_NoEscalation ==
    /\ kpPc = "wait"
    /\ IF ~StillRunning(kpProc)
       THEN /\ kpTrace' = Append(kpTrace, "wait")
            /\ KpReturn(TRUE, "terminated gracefully")
            /\ UNCHANGED <<procState, ttl, lastQuery, kpExc>>
       ELSE \/ \E d \in 0..Ticks(kpTimeout) :
                 /\ procState' = [procState EXCEPT ![kpProc] = "dead"]
                 /\ Elapse(d)
                 /\ kpTrace' = Append(kpTrace, "wait")
                 /\ KpReturn(TRUE, "terminated gracefully")
                 /\ UNCHANGED kpExc
            \/ /\ Elapse(Ticks(kpTimeout))
               /\ kpTrace' = Append(kpTrace, "wait_timeout")
               /\ kpExc' = "TimeoutExpired"
               /\ KpReturn(FALSE, "Failed to kill")
               /\ UNCHANGED procState
    /\ UNCHANGED <<psutil, cache, callVars, scVars, kaVars, kpProc, kpTimeout>>
    /\ UNCHANGED notKiller

\* lines 112-116: proc.wait(timeout=timeout); a timeout escalates
KP_Wait ==
    /\ kpPc = "wait"
    /\ IF ~StillRunning(kpProc)
       THEN /\ kpTrace' = Append(kpTrace, "wait")
            /\ KpReturn(TRUE, "terminated gracefully")
            /\ UNCHANGED <<procState, ttl, lastQuery, kpExc>>
       ELSE \/ \E d \in 0..Ticks(kpTimeout) :
                 /\ procState' = [procState EXCEPT ![kpProc] = "dead"]
                 /\ Elapse(d)
                 /\ kpTrace' = Append(kpTrace, "wait")
                 /\ KpReturn(TRUE, "terminated gracefully")
                 /\ UNCHANGED kpExc
            \/ /\ Elapse(Ticks(kpTimeout))     \* TimeoutExpired
               /\ kpTrace' = Append(kpTrace, "wait_timeout")
               /\ kpPc' = "kill"
               /\ UNCHANGED <<procState, kpRet, kpExc>>
            \/ /\ kpTrace' = Append(kpTrace, "wait")
               /\ KpExcept("AccessDenied")
               /\ UNCHANGED <<procState, ttl, lastQuery>>
    /\ UNCHANGED <<psutil, cache, callVars, scVars, kaVars, kpProc, kpTimeout>>
    /\ UNCHANGED notKiller

\* line 119: proc.kill()
KP_Kill ==
    /\ kpPc = "kill"
    /\ kpTrace' = Append(kpTrace, "kill")
    /\ \E exc \in SignalOutcomes(kpProc) :
          IF exc = "none"
          THEN kpPc' = "wait2" /\ UNCHANGED <<kpRet, kpExc>>
          ELSE KpExcept(exc)
    /\ UNCHANGED <<envVars, cacheVars, callVars, lastQuery, scVars, kaVars,
                   kpProc, kpTimeout>>
    /\ UNCHANGED notKiller

\* lines 120-126: proc.wait(timeout=2); a timeout is the failure
KP_Wait2 ==
    /\ kpPc = "wait2"
    /\ IF ~StillRunning(kpProc)
       THEN /\ kpTrace' = Append(kpTrace, "wait2")
            /\ KpReturn(TRUE, "force killed")
            /\ UNCHANGED <<procState, ttl, lastQuery, kpExc>>
       ELSE \/ \E d \in 0..ForceWait :
                 /\ procState' = [procState EXCEPT ![kpProc] = "dead"]
                 /\ Elapse(d)
                 /\ kpTrace' = Append(kpTrace, "wait2")
                 /\ KpReturn(TRUE, "force killed")
                 /\ UNCHANGED kpExc
            \/ /\ Elapse(ForceWait)            \* TimeoutExpired
               /\ kpTrace' = Append(kpTrace, "wait2_timeout")
               /\ kpExc' = "TimeoutExpired"
               /\ KpReturn(FALSE, "Failed to kill")
               /\ UNCHANGED procState
            \/ /\ kpTrace' = Append(kpTrace, "wait2")
               /\ KpExcept("AccessDenied")
               /\ UNCHANGED <<procState, ttl, lastQuery>>
    /\ UNCHANGED <<psutil, cache, callVars, scVars, kaVars, kpProc, kpTimeout>>
    /\ UNCHANGED notKiller

(***************************************************************************)
(* kill_all(process_names, timeout)                                        *)
(***************************************************************************)
\* the frame of kill_all is dropped once its result is consumed
ResetKillAll ==
    /\ kaPc' = "idle" /\ kaRunning' = <<>> /\ kaRemaining' = <<>> /\ kaIdx' = 0
    /\ kaKilled' = 0 /\ kaTrace' = <<>> /\ kaRet' = NoRet

\* entering kill_all
StartKillAll ==
    /\ kaPc' = "query1"
    /\ kaRunning' = <<>>
    /\ kaRemaining' = <<>>
    /\ kaIdx' = 0
    /\ kaKilled' = 0
    /\ kaTrace' = <<>>
    /\ kaRet' = NoRet

\* leaving kill_all with a result
KaReturn(ok, msg, n) ==
    /\ kaPc' = "ret"
    /\ kaRet' = Result(ok, msg, n)

\* KA_Query1 without the early return on an empty result
KA_Query1_NoEarlyReturn ==
    /\ kaPc = "query1"
    /\ \E u \in EnumStops :
        LET r == GetRunningProcesses(names, u) IN
        /\ Query(r)
        /\ kaTrace' = Append(kaTrace, "query")
        /\ kaRunning' = r.res
        /\ IF r.res = <<>>
           THEN kaPc' = "sleep1" /\ UNCHANGED <<kaIdx, kaRet>>
           ELSE kaPc' = "kill" /\ kaIdx' = 1 /\ UNCHANGED kaRet
    /\ UNCHANGED <<envVars, callVars, scVars, kaRemaining, kaKilled, kpVars>>
    /\ UNCHANGED notKiller

\* lines 148-155: the first query
KA_Query1 ==
    /\ kaPc = "query1"
    /\ \E u \in EnumStops :
        LET r == GetRunningProcesses(names, u) IN
        /\ Query(r)
        /\ kaTrace' = Append(kaTrace, "query")
        /\ kaRunning' = r.res
        /\ IF r.res = <<>>
           THEN KaReturn(TRUE, "No processes running", 0) /\ UNCHANGED kaIdx
           ELSE kaPc' = "kill" /\ kaIdx' = 1 /\ UNCHANGED kaRet
    /\ UNCHANGED <<envVars, callVars, scVars, kaRemaining, kaKilled, kpVars>>
    /\ UNCHANGED notKiller

\* lines 156-157: kill_process(proc, timeout) for the next handle
KA_CallKill ==
    /\ kaPc = "kill"
    /\ kaPc' = "killing"
    /\ kaTrace' = Append(kaTrace, "kill_process")
    /\ StartKillProcess(kaRunning[kaIdx], timeout)
    /\ UNCHANGED <<envVars, cacheVars, callVars, lastQuery, scVars,
                   kaRunning, kaRemaining, kaIdx, kaKilled, kaRet>>
    /\ UNCHANGED notKiller

\* lines 157-158: count the result and go on with the next handle
KA_AfterKill ==
    /\ kaPc = "killing"
    /\ kpPc = "ret"
    /\ ResetKillProcess
    /\ kaKilled' = IF kpRet.ok THEN kaKilled + 1 ELSE kaKilled
    /\ IF kaIdx < Len(kaRunning)
       THEN kaIdx' = kaIdx + 1 /\ kaPc' = "kill"
       ELSE kaPc' = "sleep1" /\ UNCHANGED kaIdx
    /\ UNCHANGED <<envVars, cacheVars, callVars, lastQuery, scVars,
                   kaRunning, kaRemaining, kaTrace, kaRet>>
    /\ UNCHANGED notKiller

\* line 161: time.sleep(0.5)
KA_Sleep1 ==
    /\ kaPc = "sleep1"
    /\ Elapse(KillAllSettle)
    /\ kaTrace' = Append(kaTrace, "sleep")
    /\ kaPc' = "query2"
    /\ UNCHANGED <<envVars, cache, callVars, scVars,
                   kaRunning, kaRemaining, kaIdx, kaKilled, kaRet, kpVars>>
    /\ UNCHANGED notKiller

\* KA_Query2 reporting the survivors without force-killing them
KA_Query2_NoForce ==
    /\ kaPc = "query2"
    /\ \E u \in EnumStops :
        LET r == GetRunningProcesses(names, u) IN
        /\ Query(r)
        /\ kaTrace' = Append(kaTrace, "query")
        /\ kaRemaining' = r.res
        /\ IF r.res = <<>>
           THEN KaReturn(TRUE, "Killed", kaKilled)
           ELSE KaReturn(FALSE, "Failed to kill", Len(r.res))
    /\ UNCHANGED <<envVars, callVars, scVars, kaRunning, kaIdx, kaKilled, kpVars>>
    /\ UNCHANGED notKiller

\* lines 162-166 and 180: the re-query
KA_Query2 ==
    /\ kaPc = "query2"
    /\ \E u \in EnumStops :
        LET r == GetRunningProcesses(names, u) IN
        /\ Query(r)
        /\ kaTrace' = Append(kaTrace, "query")
        /\ kaRemaining' = r.res
        /\ IF r.res = <<>>
           THEN KaReturn(TRUE, "Killed", kaKilled) /\ UNCHANGED kaIdx
           ELSE kaPc' = "force" /\ kaIdx' = 1 /\ UNCHANGED kaRet
    /\ UNCHANGED <<envVars, callVars, scVars, kaRunning, kaKilled, kpVars>>
    /\ UNCHANGED notKiller

\* after the handle at kaIdx of the force loop
KaForceNext ==
    IF kaIdx < Len(kaRemaining)
    THEN kaIdx' = kaIdx + 1 /\ kaPc' = "force"
    ELSE kaPc' = "sleep2" /\ UNCHANGED kaIdx

\* line 169: proc['process_obj'].kill(); an exception is swallowed
KA_ForceKill ==
    /\ kaPc = "force"
    /\ kaTrace' = Append(kaTrace, "kill")
    /\ IF ~StillRunning(kaRemaining[kaIdx])
       THEN KaForceNext                                   \* NoSuchProcess
       ELSE \/ kaPc' = "forcewait" /\ UNCHANGED kaIdx
            \/ KaForceNext                                \* AccessDenied, others
    /\ UNCHANGED <<envVars, cacheVars, callVars, lastQuery, scVars,
                   kaRunning, kaRemaining, kaKilled, kaRet, kpVars>>
    /\ UNCHANGED notKiller

\* lines 170-173: proc['process_obj'].wait(timeout=2); killed += 1
KA_ForceWait ==
    /\ kaPc = "forcewait"
    /\ kaTrace' = Append(kaTrace, "wait")
    /\ IF ~StillRunning(kaRemaining[kaIdx])
       THEN kaKilled' = kaKilled + 1 /\ UNCHANGED <<procState, ttl, lastQuery>>
       ELSE \/ \E d \in 0..ForceWait :
                 /\ procState' = [procState EXCEPT ![kaRemaining[kaIdx]] = "dead"]
                 /\ Elapse(d)
                 /\ kaKilled' = kaKilled + 1
            \/ /\ Elapse(ForceWait)            \* TimeoutExpired
               /\ UNCHANGED <<procState, kaKilled>>
            \/ UNCHANGED <<procState, ttl, lastQuery, kaKilled>>     \* any other exception
    /\ KaForceNext
    /\ UNCHANGED <<psutil, cache, callVars, scVars,
                   kaRunning, kaRemaining, kaRet, kpVars>>
    /\ UNCHANGED notKiller

\* line 175: time.sleep(0.5)
KA_Sleep2 ==
    /\ kaPc = "sleep2"
    /\ Elapse(KillAllSettle)
    /\ kaTrace' = Append(kaTrace, "sleep")
    /\ kaPc' = "query3"
    /\ UNCHANGED <<envVars, cache, callVars, scVars,
                   kaRunning, kaRemaining, kaIdx, kaKilled, kaRet, kpVars>>
    /\ UNCHANGED notKiller

\* lines 176-180: the final query and the verdict
KA_Query3 ==
    /\ kaPc = "query3"
    /\ \E u \in EnumStops :
        LET r == GetRunningProcesses(names, u) IN
        /\ Query(r)
        /\ kaTrace' = Append(kaTrace, "query")
        /\ IF r.res # <<>>
           THEN KaReturn(FALSE, "Failed to kill", Len(r.res))
           ELSE KaReturn(TRUE, "Killed", kaKilled)
    /\ UNCHANGED <<envVars, callVars, scVars, kaRunning, kaRemaining, kaIdx, kaKilled, kpVars>>
    /\ UNCHANGED notKiller

(***************************************************************************)
(* smart_close(app_name, process_names, timeout, max_retries)              *)
(***************************************************************************)
\* a top-level operation returns to its caller
TopReturn(name, ok, msg, n) ==
    /\ op' = "idle"
    /\ ret' = [op |-> name, ok |-> ok, msg |-> msg, n |-> n]
    /\ UNCHANGED <<calls, names, timeout, maxRetries>>

\* leaving smart_close with a result
ScReturn(ok, msg) ==
    /\ scPc' = "idle"
    /\ scRet' = Result(ok, msg, 0)
    /\ TopReturn("smart_close", ok, msg, 0)

\* lines 201-203: is_running at the start of an attempt
SC_Check ==
    /\ scPc = "check"
    /\ \E u \in EnumStops :
        LET r == GetRunningProcesses(names, u) IN
        /\ Query(r)
        /\ IF ~IsRunning(r)
           THEN /\ scPc' = "settle_notrunning"
                /\ scTrace' = Append(scTrace, "is_running")
                /\ UNCHANGED kaVars
           ELSE /\ scPc' = "closing"                      \* line 210: kill_all
                /\ scTrace' = scTrace \o <<"is_running", "kill_all">>
                /\ StartKillAll
    /\ UNCHANGED <<envVars, callVars, scAttempt, scRet, kpVars>>
    /\ UNCHANGED notKiller

\* lines 205-206: time.sleep(2), then success
SC_NotRunningSettle ==
    /\ scPc = "settle_notrunning"
    /\ Elapse(NotRunningSettle)
    /\ scTrace' = Append(scTrace, "sleep2")
    /\ ScReturn(TRUE, "is not running")
    /\ UNCHANGED <<envVars, cache, scAttempt, kaVars, kpVars>>
    /\ UNCHANGED notKiller

\* SC_AfterKill giving up after the first failed attempt
SC_AfterKill_NoRetry ==
    /\ scPc = "closing"
    /\ kaPc = "ret"
    /\ ResetKillAll
    /\ scTrace' = Append(scTrace, IF kaRet.ok THEN "closed" ELSE "failed")
    /\ scPc' = IF kaRet.ok THEN "settle_closed" ELSE "final"
    /\ UNCHANGED <<envVars, cacheVars, callVars, lastQuery, scAttempt, scRet, kpVars>>
    /\ UNCHANGED notKiller

\* lines 210-218: the verdict of kill_all
SC_AfterKill ==
    /\ scPc = "closing"
    /\ kaPc = "ret"
    /\ ResetKillAll
    /\ scTrace' = Append(scTrace, IF kaRet.ok THEN "closed" ELSE "failed")
    /\ scPc' = IF kaRet.ok THEN "settle_closed"
               ELSE IF scAttempt < maxRetries THEN "retry_sleep"
               ELSE "final"
    /\ UNCHANGED <<envVars, cacheVars, callVars, lastQuery, scAttempt, scRet, kpVars>>
    /\ UNCHANGED notKiller

\* lines 215-216: time.sleep(3), then success
SC_ClosedSettle ==
    /\ scPc = "settle_closed"
    /\ Elapse(ClosedSettle)
    /\ scTrace' = Append(scTrace, "sleep3")
    /\ ScReturn(TRUE, "closed")
    /\ UNCHANGED <<envVars, cache, scAttempt, kaVars, kpVars>>
    /\ UNCHANGED notKiller

\* SC_RetrySleep on a loop that does not count its attempts
SC_RetrySleep_NoCount ==
    /\ scPc = "retry_sleep"
    /\ Elapse(RetrySettle)
    /\ scTrace' = Append(scTrace, "sleep2")
    /\ scPc' = "check"
    /\ UNCHANGED <<envVars, cache, callVars, scAttempt, scRet, kaVars, kpVars>>
    /\ UNCHANGED notKiller

\* lines 218-220: time.sleep(2), then the next attempt
SC_RetrySleep ==
    /\ scPc = "retry_sleep"
    /\ Elapse(RetrySettle)
    /\ scTrace' = Append(scTrace, "sleep2")
    /\ scAttempt' = scAttempt + 1
    /\ scPc' = "check"
    /\ UNCHANGED <<envVars, cache, callVars, scRet, kaVars, kpVars>>
    /\ UNCHANGED notKiller

\* lines 223-227: the query after the last attempt
SC_Final ==
    /\ scPc = "final"
    /\ \E u \in EnumStops :
        LET r == GetRunningProcesses(names, u) IN
        /\ Query(r)
        /\ scTrace' = Append(scTrace, "query")
        /\ IF r.res # <<>>
           THEN ScReturn(FALSE, "Failed to close")
           ELSE scPc' = "settle_final" /\ UNCHANGED <<scRet, callVars>>
    /\ UNCHANGED <<envVars, scAttempt, kaVars, kpVars>>
    /\ UNCHANGED notKiller

\* SC_FinalSettle returning at once, without the sleep
SC_FinalSettle_NoSleep ==
    /\ scPc = "settle_final"
    /\ ScReturn(TRUE, "closed after retries")
    /\ UNCHANGED <<envVars, cacheVars, lastQuery, scAttempt, scTrace, kaVars, kpVars>>
    /\ UNCHANGED notKiller

\* lines 230-231: time.sleep(3), then success
SC_FinalSettle ==
    /\ scPc = "settle_final"
    /\ Elapse(FinalSettle)
    /\ scTrace' = Append(scTrace, "sleep3")
    /\ ScReturn(TRUE, "closed after retries")
    /\ UNCHANGED <<envVars, cache, scAttempt, kaVars, kpVars>>
    /\ UNCHANGED notKiller

(***************************************************************************)
(* The caller of a ProcessKiller.                                          *)
(***************************************************************************)
\* a new top-level call starts from clean frames
ResetFrames ==
    /\ scPc' = "idle" /\ scAttempt' = 0 /\ scTrace' = <<>> /\ scRet' = NoRet
    /\ ResetKillAll
    /\ ResetKillProcess

\* smart_close(app_name, process_names, timeout, max_retries): lines 195-201
CallSmartClose(nms, t, mr) ==
    /\ CanCall
    /\ calls' = 1
    /\ names' = nms /\ timeout' = t /\ maxRetries' = mr
    /\ ResetKillAll
    /\ ResetKillProcess
    /\ scAttempt' = 1 /\ scTrace' = <<>>
    /\ IF ~psutil
       THEN /\ scPc' = "idle"
            /\ scRet' = Result(TRUE, "psutil not available", 0)
            /\ op' = "idle"
            /\ ret' = [op |-> "smart_close", ok |-> TRUE,
                       msg |-> "psutil not available", n |-> 0]
       ELSE /\ scPc' = IF mr >= 1 THEN "check" ELSE "final"
            /\ scRet' = NoRet
            /\ op' = "smart_close"
            /\ ret' = NoTopRet
    /\ UNCHANGED <<envVars, cacheVars, lastQuery>>
    /\ UNCHANGED notKiller

\* kill_all(process_names, timeout) called directly
CallKillAll(nms, t) ==
    /\ CanCall
    /\ calls' = 1
    /\ names' = nms /\ timeout' = t /\ maxRetries' = 0
    /\ op' = "kill_all" /\ ret' = NoTopRet
    /\ scPc' = "idle" /\ scAttempt' = 0 /\ scTrace' = <<>> /\ scRet' = NoRet
    /\ ResetKillProcess
    /\ StartKillAll
    /\ UNCHANGED <<envVars, cacheVars, lastQuery>>
    /\ UNCHANGED notKiller

\* kill_all returns to the caller
ReturnKillAll ==
    /\ op = "kill_all" /\ kaPc = "ret"
    /\ kaPc' = "idle"
    /\ TopReturn("kill_all", kaRet.ok, kaRet.msg, kaRet.n)
    /\ UNCHANGED <<envVars, cacheVars, lastQuery, scVars,
                   kaRunning, kaRemaining, kaIdx, kaKilled, kaTrace, kaRet, kpVars>>
    /\ UNCHANGED notKiller

\* kill_process(proc_info, timeout) called directly, on a handle of a process
\* that once ran
CallKillProcess(h, t) ==
    /\ CanCall
    /\ procState[h] # "unborn"
    /\ calls' = 1
    /\ names' = <<>> /\ timeout' = t /\ maxRetries' = 0
    /\ op' = "kill_process" /\ ret' = NoTopRet
    /\ scPc' = "idle" /\ scAttempt' = 0 /\ scTrace' = <<>> /\ scRet' = NoRet
    /\ ResetKillAll
    /\ StartKillProcess(h, t)
    /\ UNCHANGED <<envVars, cacheVars, lastQuery>>
    /\ UNCHANGED notKiller

\* kill_process returns to the caller
ReturnKillProcess ==
    /\ op = "kill_process" /\ kpPc = "ret"
    /\ kpPc' = "idle"
    /\ TopReturn("kill_process", kpRet.ok, kpRet.msg, 0)
    /\ UNCHANGED <<envVars, cacheVars, lastQuery, scVars, kaVars,
                   kpProc, kpTimeout, kpTrace, kpRet, kpExc>>
    /\ UNCHANGED notKiller

\* get_running_processes(process_names) called directly
CallQuery(nms) ==
    /\ CanCall
    /\ calls' = 1
    /\ names' = nms /\ timeout' = 0 /\ maxRetries' = 0
    /\ op' = "idle"
    /\ ResetFrames
    /\ \E u \in EnumStops :
        LET r == GetRunningProcesses(nms, u) IN
        /\ Query(r)
        /\ ret' = [op |-> "get_running_processes", ok |-> r.res # <<>>,
                   msg |-> "none", n |-> Len(r.res)]
    /\ UNCHANGED envVars
    /\ UNCHANGED notKiller

\* is_running(process_names) called directly
CallIsRunning(nms) ==
    /\ CanCall
    /\ calls' = 1
    /\ names' = nms /\ timeout' = 0 /\ maxRetries' = 0
    /\ op' = "idle"
    /\ ResetFrames
    /\ \E u \in EnumStops :
        LET r == GetRunningProcesses(nms, u) IN
        /\ Query(r)
        /\ ret' = [op |-> "is_running", ok |-> IsRunning(r), msg |-> "none", n |-> 0]
    /\ UNCHANGED envVars
    /\ UNCHANGED notKiller

(***************************************************************************)
(* wait_for_exit(process_names, timeout)                                   *)
(***************************************************************************)
\* the timeouts callers pass to wait_for_exit, in seconds
WaitTimeouts == {0, 1}

\* leaving wait_for_exit with a result
WfReturn(ok) ==
    /\ wfPc' = "idle"
    /\ TopReturn("wait_for_exit", ok, "none", 0)

\* lines 243-244: start = time.time() and the first test of the loop
CallWaitForExit(nms, t) ==
    /\ CanCall
    /\ calls' = 1
    /\ names' = nms /\ timeout' = t /\ maxRetries' = 0
    /\ ResetFrames
    /\ wfElapsed' = 0 /\ wfPolls' = <<>>
    /\ IF 0 < Ticks(t)
       THEN wfPc' = "poll" /\ op' = "wait_for_exit" /\ ret' = NoTopRet
       ELSE /\ wfPc' = "idle" /\ op' = "idle"                   \* line 248
            /\ ret' = [op |-> "wait_for_exit", ok |-> FALSE, msg |-> "none", n |-> 0]
    /\ UNCHANGED <<envVars, cacheVars, lastQuery>>
    /\ UNCHANGED <<workerVars, threadVars, guiVars, moreVars>>

\* Wait_Test with <= in place of <
Wait_Test_Inclusive ==
    /\ wfPc = "test"
    /\ IF wfElapsed <= Ticks(timeout)
       THEN wfPc' = "poll" /\ UNCHANGED callVars
       ELSE WfReturn(FALSE)
    /\ UNCHANGED <<envVars, cacheVars, lastQuery, scVars, kaVars, kpVars, wfElapsed, wfPolls>>
    /\ UNCHANGED <<workerVars, threadVars, guiVars, moreVars>>

\* lines 244, 248: while time.time() - start < timeout, else return False
Wait_Test ==
    /\ wfPc = "test"
    /\ IF wfElapsed < Ticks(timeout)
       THEN wfPc' = "poll" /\ UNCHANGED callVars
       ELSE WfReturn(FALSE)
    /\ UNCHANGED <<envVars, cacheVars, lastQuery, scVars, kaVars, kpVars, wfElapsed, wfPolls>>
    /\ UNCHANGED <<workerVars, threadVars, guiVars, moreVars>>

\* lines 245-246: if not self.is_running(process_names): return True
Wait_Poll ==
    /\ wfPc = "poll"
    /\ \E u \in EnumStops :
        LET r == GetRunningProcesses(names, u) IN
        /\ Query(r)
        /\ wfPolls' = Append(wfPolls, IsRunning(r))
        /\ IF ~IsRunning(r)
           THEN WfReturn(TRUE)
           ELSE wfPc' = "sleep" /\ UNCHANGED callVars
    /\ UNCHANGED <<envVars, scVars, kaVars, kpVars, wfElapsed>>
    /\ UNCHANGED <<workerVars, threadVars, guiVars, moreVars>>

\* line 247: time.sleep(0.5)
Wait_Sleep ==
    /\ wfPc = "sleep"
    /\ Elapse(1)
    /\ wfElapsed' = wfElapsed + 1
    /\ wfPc' = "test"
    /\ UNCHANGED <<envVars, cache, callVars, scVars, kaVars, kpVars, wfPolls>>
    /\ UNCHANGED <<workerVars, threadVars, guiVars, moreVars>>

\* the name lists of a caller that asks about the same names again: in
\* another order, with a name repeated, or about other names
CacheNameLists ==
    { <<StrCodeLower>>, <<StrCodeLower, StrCodeLower>>, <<StrCodeHelper>>,
      <<StrCodeHelper, StrCodeLower>>, <<StrCodeLower, StrCodeHelper>> }

\* one more get_running_processes(process_names) on the same ProcessKiller
Q_Query(nms) ==
    /\ qLeft > 0 /\ op = "idle"
    /\ qLeft' = qLeft - 1
    /\ calls' = calls + 1
    /\ names' = nms
    /\ \E u \in EnumStops :
        LET r == GetRunningProcesses(nms, u) IN
        /\ Query(r)
        /\ ret' = [op |-> "get_running_processes", ok |-> r.res # <<>>,
                   msg |-> "none", n |-> Len(r.res)]
        /\ qBorn' = IF r.enum /\ r.res # <<>>          \* lines 76-78: stored
                    THEN [k \in DOMAIN qBorn \cup {CacheKey(nms)} |->
                             IF k = CacheKey(nms) THEN 0 ELSE qBorn[k]]
                    ELSE qBorn
        /\ qSeen' = [names |-> nms, res |-> r.res,
                     match |-> {p \in Procs : procState[p] = "alive" /\ Matches(nms, p)},
                     full |-> u = NProcs]
    /\ UNCHANGED <<envVars, op, timeout, maxRetries, scVars, kaVars, kpVars>>
    /\ UNCHANGED <<workerVars, waitVars, threadVars, guiVars, fs0, peer, tab>>

\* half a second passes between two of these calls
Q_Tick ==
    /\ qLeft > 0 /\ qBorn # << >>
    /\ \/ ttl > 0
       \/ \E k \in DOMAIN qBorn : qBorn[k] <= CacheDuration
    /\ Elapse(1)
    /\ qBorn' = [k \in DOMAIN qBorn |->
                    IF qBorn[k] <= CacheDuration THEN qBorn[k] + 1 ELSE qBorn[k]]
    /\ UNCHANGED <<envVars, cache, callVars, scVars, kaVars, kpVars>>
    /\ UNCHANGED <<qLeft, qSeen>>
    /\ UNCHANGED <<workerVars, waitVars, threadVars, guiVars, fs0, peer, tab>>

CacheNext ==
    \/ \E p \in Procs : ProcSpawn(p)
    \/ \E p \in Procs : ProcExit(p)
    \/ \E nms \in CacheNameLists : Q_Query(nms)
    \/ Q_Tick

KillerInit ==
    /\ procState \in [Procs -> {"unborn", "alive"}]
    /\ psutil \in BOOLEAN
    /\ cache = << >>
    /\ ttl = 0
    /\ calls = 0
    /\ op = "idle"
    /\ names = <<>>
    /\ timeout = 0
    /\ maxRetries = 0
    /\ ret = NoTopRet
    /\ lastQuery = NoQuery
    /\ scPc = "idle" /\ scAttempt = 0 /\ scTrace = <<>> /\ scRet = NoRet
    /\ kaPc = "idle" /\ kaRunning = <<>> /\ kaRemaining = <<>> /\ kaIdx = 0
    /\ kaKilled = 0 /\ kaTrace = <<>> /\ kaRet = NoRet
    /\ kpPc = "idle" /\ kpProc = 0 /\ kpTimeout = 0 /\ kpTrace = <<>>
    /\ kpRet = NoRet /\ kpExc = "none"
    /\ wfPc = "idle" /\ wfElapsed = 0 /\ wfPolls = <<>>

KillerNext ==
    \/ \E p \in Procs : ProcSpawn(p)
    \/ \E p \in Procs : ProcExit(p)
    \/ Tick
    \/ \E nms \in NameLists, t \in Timeouts, mr \in 0..MaxRetriesBound :
          CallSmartClose(nms, t, mr)
    \/ \E nms \in NameLists, t \in Timeouts : CallKillAll(nms, t)
    \/ \E h \in Procs, t \in Timeouts : CallKillProcess(h, t)
    \/ \E nms \in NameLists : CallQuery(nms)
    \/ \E nms \in NameLists : CallIsRunning(nms)
    \/ SC_Check \/ SC_NotRunningSettle \/ SC_AfterKill \/ SC_ClosedSettle
    \/ SC_RetrySleep \/ SC_Final \/ SC_FinalSettle
    \/ KA_Query1 \/ KA_CallKill \/ KA_AfterKill \/ KA_Sleep1 \/ KA_Query2
    \/ KA_ForceKill \/ KA_ForceWait \/ KA_Sleep2 \/ KA_Query3 \/ ReturnKillAll
    \/ KP_Check \/ KP_Terminate \/ KP_Wait \/ KP_Kill \/ KP_Wait2
    \/ ReturnKillProcess
    \/ \E nms \in NameLists, t \in WaitTimeouts : CallWaitForExit(nms, t)
    \/ Wait_Test \/ Wait_Poll \/ Wait_Sleep



(***************************************************************************)
(* The transfer workers (app/core/workers.py).                             *)
(*                                                                         *)
(* A file system node is absent, a file with its data, or a directory      *)
(* with its entries.  Paths are sequences of components.                   *)
(***************************************************************************)
MaxItems == 2          \* backup_items holds at most MaxItems items
MaxAddons == 2         \* addon_paths holds at most MaxAddons paths

NoKids == [n \in {} |-> 0]
Absent == [kind |-> "none", data |-> "", kids |-> NoKids]
File(d) == [kind |-> "file", data |-> d, kids |-> NoKids]
Dir(kids) == [kind |-> "dir", data |-> "", kids |-> kids]
EmptyDir == Dir(NoKids)

\* os.path.exists, os.path.isdir
Exists(node) == node.kind # "none"
IsDir(node) == node.kind = "dir"

\* the entry `name` of a node
Kid(node, name) ==
    IF node.kind = "dir" /\ name \in DOMAIN node.kids THEN node.kids[name] ELSE Absent

\* the names os.listdir returns
Listing(node) == DOMAIN node.kids

\* a directory with the entry `name` set / removed
Put(dir, name, node) ==
    Dir([n \in DOMAIN dir.kids \cup {name} |-> IF n = name THEN node ELSE dir.kids[n]])
Remove(dir, name) ==
    Dir([n \in DOMAIN dir.kids \ {name} |-> dir.kids[n]])

\* shutil.copy2(src, dst) onto the node now at dst; `base` is the name of src.
\* Onto a directory the file goes inside it, and fails on a directory there.
CopyFile(src, dst, base) ==
    IF dst.kind = "dir"
    THEN IF Kid(dst, base).kind = "dir"
         THEN [err |-> TRUE, node |-> dst]
         ELSE [err |-> FALSE, node |-> Put(dst, base, File(src.data))]
    ELSE [err |-> FALSE, node |-> File(src.data)]

\* shutil.copytree(src, dst, dirs_exist_ok=True) onto the node now at dst:
\* the entries of src are merged into dst, the other entries of dst stay;
\* the errors of the entries are collected and raised at the end.
RECURSIVE CopyTree(_, _)
CopyTree(src, dst) ==
    IF dst.kind = "file"
    THEN [err |-> TRUE, node |-> dst]
    ELSE LET one(k) == IF IsDir(src.kids[k])
                       THEN CopyTree(src.kids[k], Kid(dst, k))
                       ELSE CopyFile(src.kids[k], Kid(dst, k), k)
             merged == DOMAIN src.kids \cup (IF IsDir(dst) THEN DOMAIN dst.kids ELSE {})
         IN  [err |-> \E k \in DOMAIN src.kids : one(k).err,
              node |-> Dir([n \in merged |->
                             IF n \in DOMAIN src.kids THEN one(n).node ELSE dst.kids[n]])]

\* the copy of lines 53-58, 78-81, 170-173: copytree for a directory, copy2
\* for a file
CopyEntry(src, dst, base) ==
    IF IsDir(src) THEN CopyTree(src, dst) ELSE CopyFile(src, dst, base)

\* os.path.basename
Basename(path) == path[Len(path)]

\* the roots and the addon paths
SrcRoot == <<"app">>
BakRoot == <<"bak">>
AddonPaths == { <<"x", "ext">>, <<"y", "ext">> }
Locations == {SrcRoot, BakRoot} \cup AddonPaths

\* a percentage that is not scaled by the number of units
Pct_Unscaled(base, k, total, span) == base + (k * span)

\* a percentage that leaves out the base of the phase
Pct_Restart(base, k, total, span) == (k * span) \div total

\* 30 + int((i + 1) / total_items * 50), 80 + int((j + 1) / len(addon_paths) * 15);
\* up to 49 items the float product truncates to the integer quotient
Pct(base, k, total, span) == base + ((k * span) \div total)

\* sequences over S of length at most n
RECURSIVE SeqsUpTo(_, _)
SeqsUpTo(S, n) ==
    IF n = 0 THEN { <<>> }
    ELSE LET shorter == SeqsUpTo(S, n - 1)
         IN  shorter \cup { Append(q, x) : q \in shorter, x \in S }

\* the orders in which os.listdir can return the names of S
RECURSIVE Orders(_)
Orders(S) ==
    IF S = {} THEN { <<>> }
    ELSE UNION { { <<x>> \o q : q \in Orders(S \ {x}) } : x \in S }

\* an emitted signal
Progress(pct, label, arg) == [t |-> "progress", ok |-> TRUE, n |-> pct, tag |-> label, arg |-> arg]
Log(tag, arg) == [t |-> "log", ok |-> TRUE, n |-> 0, tag |-> tag, arg |-> arg]
Finished(ok, msg) == [t |-> "finished", ok |-> ok, n |-> 0, tag |-> msg, arg |-> ""]

\* self.finished.emit(...) followed by the return
Finish(ok, msg) ==
    /\ events' = Append(events, Finished(ok, msg))
    /\ wPc' = "done"

\* an exception that leaves run without a finished signal
Raise_Silent(exc) ==
    /\ wPc' = "done"
    /\ wFault' = exc
    /\ UNCHANGED events

\* a handler that reports a fixed text in place of str(e)
Raise_Generic(exc) ==
    /\ events' = Append(events, Finished(FALSE, "Error"))
    /\ wPc' = "done"
    /\ wFault' = exc

\* lines 115-116, 212-213: except Exception as e: finished.emit(False, str(e))
Raise(exc) ==
    /\ events' = Append(events, Finished(FALSE, exc))
    /\ wPc' = "done"
    /\ wFault' = exc

\* a poll that does not look at the flag
PollCancel_Ignores(from, to) ==
    /\ wPc = from
    /\ wPc' = to
    /\ UNCHANGED <<wKind, wItems, wAddons, fs, cancelled, wIdx, wList,
                   wAddonName, wFault, cancelAt, events>>
    /\ UNCHANGED notWorker

\* a poll that emits the signal and goes on with the unit of work
PollCancel_NoReturn(from, to) ==
    /\ wPc = from
    /\ wPc' = to
    /\ events' = IF cancelled THEN Append(events, Finished(FALSE, "Cancelled")) ELSE events
    /\ UNCHANGED <<wKind, wItems, wAddons, fs, cancelled, wIdx, wList,
                   wAddonName, wFault, cancelAt>>
    /\ UNCHANGED notWorker

\* a poll that misses a cancel() made before run() started
PollCancel_AfterStart(from, to) ==
    /\ wPc = from
    /\ IF cancelled /\ cancelAt # "start"
       THEN Finish(FALSE, "Cancelled")
       ELSE wPc' = to /\ UNCHANGED events
    /\ UNCHANGED <<wKind, wItems, wAddons, fs, cancelled, wIdx, wList,
                   wAddonName, wFault, cancelAt>>
    /\ UNCHANGED notWorker

\* lines 41-43 and the like: the poll of the flag before a unit of work
PollCancel(from, to) ==
    /\ wPc = from
    /\ IF cancelled THEN Finish(FALSE, "Cancelled") ELSE wPc' = to /\ UNCHANGED events
    /\ UNCHANGED <<wKind, wItems, wAddons, fs, cancelled, wIdx, wList,
                   wAddonName, wFault, cancelAt>>
    /\ UNCHANGED notWorker

\* lines 26-28, 134-135: cancel(), from the caller's thread
Cancel ==
    /\ ~cancelled
    /\ wPc # "done"
    /\ cancelled' = TRUE
    /\ cancelAt' = wPc
    /\ UNCHANGED <<wKind, wItems, wAddons, fs, wPc, wIdx, wList, wAddonName,
                   wFault, events>>
    /\ UNCHANGED notWorker

\* what the operating system can do to a file operation: let it pass, or
\* fail it (disk full, a lock, a vanished file)
IoOutcomes == {"ok", "OSError"}

\* the file system with the node at the root `loc` replaced
SetRoot(loc, node) == [fs EXCEPT ![loc] = node]

\* the file system with the entry `name` of the directory at `loc` replaced
SetEntry(loc, name, node) == [fs EXCEPT ![loc] = Put(fs[loc], name, node)]

(***************************************************************************)
(* BackupWorker.run                                                        *)
(***************************************************************************)
\* a loop that is left after one unit, whatever is still to do
LoopNext_LeavesEarly(n, again, after) ==
    wPc' = after /\ UNCHANGED wIdx

\* after the unit at wIdx of a loop over n units
LoopNext(n, again, after) ==
    IF wIdx < n
    THEN wIdx' = wIdx + 1 /\ wPc' = again
    ELSE wPc' = after /\ UNCHANGED wIdx

\* lines 33-38, 67-69: the destination folder, then the choice of the mode
B_Start ==
    /\ wKind = "backup" /\ wPc = "start"
    /\ \E io \in IoOutcomes :
        LET bak == fs[BakRoot] IN
        IF io # "ok" \/ bak.kind = "file"
        THEN Raise("OSError") /\ UNCHANGED <<fs, wIdx, wList>>
        ELSE LET made == IF Exists(bak) THEN fs ELSE SetRoot(BakRoot, EmptyDir) IN
             /\ fs' = made
             /\ IF wItems # <<>>
                THEN /\ events' = Append(events, Log("Backing up items", ""))
                     /\ wPc' = "item_check" /\ wIdx' = 1
                     /\ UNCHANGED <<wList, wFault>>
                ELSE IF ~IsDir(fs[SrcRoot])
                THEN Raise("OSError") /\ UNCHANGED <<wIdx, wList>>   \* os.listdir fails
                ELSE \E order \in Orders(Listing(fs[SrcRoot])) :
                     /\ wList' = order
                     /\ events' = Append(events, Log("Backing up full", ""))
                     /\ wIdx' = 1
                     /\ wPc' = IF order = <<>> THEN "addon_start" ELSE "fb_check"
                     /\ UNCHANGED wFault
    /\ UNCHANGED <<wKind, wItems, wAddons, cancelled, wAddonName, cancelAt>>
    /\ UNCHANGED notWorker

\* a missing item that leaves no log line
MissingItemEvents_NoSkip(item, pct) == <<pct>>

\* lines 60-64: what a declared item with no source entry emits
MissingItemEvents(item, pct) ==
    IF ~item.optional THEN <<Log("SKIP", item.path), pct>> ELSE <<pct>>

\* lines 41-43
B_ItemCheck == wKind = "backup" /\ PollCancel("item_check", "item_copy")

\* lines 45-64: one declared item
B_ItemCopy ==
    /\ wKind = "backup" /\ wPc = "item_copy"
    /\ LET item == wItems[wIdx]
           src == Kid(fs[SrcRoot], item.path)
           dst == Kid(fs[BakRoot], item.path)
           pct == Progress(Pct(30, wIdx, Len(wItems), 50), "Copying", item.path)
       IN  IF item.path = ""
           THEN /\ LoopNext(Len(wItems), "item_check", "addon_start")   \* continue
                /\ UNCHANGED <<fs, events, wFault>>
           ELSE IF Exists(src)
           THEN \E io \in IoOutcomes :
                  LET r == CopyEntry(src, dst, item.path) IN
                  IF io # "ok"
                  THEN Raise("OSError") /\ UNCHANGED <<fs, wIdx>>
                  ELSE /\ fs' = SetEntry(BakRoot, item.path, r.node)
                       /\ IF r.err
                          THEN Raise("OSError") /\ UNCHANGED wIdx
                          ELSE /\ events' = events \o <<Log("OK", item.path), pct>>
                               /\ LoopNext(Len(wItems), "item_check", "addon_start")
                               /\ UNCHANGED wFault
           ELSE /\ events' = events \o MissingItemEvents(item, pct)
                /\ LoopNext(Len(wItems), "item_check", "addon_start")
                /\ UNCHANGED <<fs, wFault>>
    /\ UNCHANGED <<wKind, wItems, wAddons, cancelled, wList, wAddonName, cancelAt>>
    /\ UNCHANGED notWorker

\* lines 72-74
B_FallbackCheck == wKind = "backup" /\ PollCancel("fb_check", "fb_copy")

\* lines 76-84: one entry of the source folder
B_FallbackCopy ==
    /\ wKind = "backup" /\ wPc = "fb_copy"
    /\ LET item == wList[wIdx]
           src == Kid(fs[SrcRoot], item)
           dst == Kid(fs[BakRoot], item)
           r == CopyEntry(src, dst, item)
       IN  \E io \in IoOutcomes :
             IF io # "ok"
             THEN Raise("OSError") /\ UNCHANGED <<fs, wIdx>>
             ELSE /\ fs' = SetEntry(BakRoot, item, r.node)
                  /\ IF r.err
                     THEN Raise("OSError") /\ UNCHANGED wIdx
                     ELSE /\ events' = Append(events,
                                 Progress(Pct(30, wIdx, Len(wList), 50), "Copying", item))
                          /\ LoopNext(Len(wList), "fb_check", "addon_start")
                          /\ UNCHANGED wFault
    /\ UNCHANGED <<wKind, wItems, wAddons, cancelled, wList, wAddonName, cancelAt>>
    /\ UNCHANGED notWorker

\* lines 87-90: the addon folder of the backup
B_AddonStart ==
    /\ wKind = "backup" /\ wPc = "addon_start"
    /\ IF wAddons = <<>>
       THEN wPc' = "finish" /\ UNCHANGED <<fs, events, wIdx, wFault>>
       ELSE \E io \in IoOutcomes :
              LET dir == Kid(fs[BakRoot], "_addons") IN
              IF io # "ok" \/ dir.kind = "file"
              THEN /\ events' = events \o <<Log("Backing up addons", ""), Finished(FALSE, "OSError")>>
                   /\ wPc' = "done" /\ wFault' = "OSError"
                   /\ UNCHANGED <<fs, wIdx>>
              ELSE /\ events' = Append(events, Log("Backing up addons", ""))
                   /\ fs' = IF Exists(dir) THEN fs ELSE SetEntry(BakRoot, "_addons", EmptyDir)
                   /\ wPc' = "addon_check" /\ wIdx' = 1
                   /\ UNCHANGED wFault
    /\ UNCHANGED <<wKind, wItems, wAddons, cancelled, wList, wAddonName, cancelAt>>
    /\ UNCHANGED notWorker

\* lines 93-95
B_AddonCheck == wKind = "backup" /\ PollCancel("addon_check", "addon_copy")

\* lines 97-110: one addon; addon_name is assigned only for an existing path
B_AddonCopy ==
    /\ wKind = "backup" /\ wPc = "addon_copy"
    /\ LET path == wAddons[wIdx]
           src == fs[path]
           name == Basename(path)
           store == Kid(fs[BakRoot], "_addons")
           r == CopyEntry(src, Kid(store, name), name)
           pct(a) == Progress(Pct(80, wIdx, Len(wAddons), 15), "Addon", a)
       IN  IF Exists(src)
           THEN /\ wAddonName' = name
                /\ \E io \in IoOutcomes :
                     IF io # "ok"
                     THEN /\ events' = events \o <<Log("FAIL Addon", name), pct(name)>>
                          /\ UNCHANGED fs
                     ELSE /\ fs' = SetEntry(BakRoot, "_addons", Put(store, name, r.node))
                          /\ events' = events \o
                                <<Log(IF r.err THEN "FAIL Addon" ELSE "OK Addon", name), pct(name)>>
                /\ LoopNext(Len(wAddons), "addon_check", "finish")
                /\ UNCHANGED wFault
           ELSE IF wAddonName = "unbound"
           THEN Raise("UnboundLocalError") /\ UNCHANGED <<fs, wIdx, wAddonName>>
           ELSE /\ events' = Append(events, pct(wAddonName))
                /\ LoopNext(Len(wAddons), "addon_check", "finish")
                /\ UNCHANGED <<fs, wAddonName, wFault>>
    /\ UNCHANGED <<wKind, wItems, wAddons, cancelled, wList, cancelAt>>
    /\ UNCHANGED notWorker

\* lines 112-113
B_Finish ==
    /\ wKind = "backup" /\ wPc = "finish"
    /\ events' = events \o <<Progress(100, "Backup complete!", ""), Finished(TRUE, "Backup complete")>>
    /\ wPc' = "done"
    /\ UNCHANGED <<wKind, wItems, wAddons, fs, cancelled, wIdx, wList,
                   wAddonName, wFault, cancelAt>>
    /\ UNCHANGED notWorker

(***************************************************************************)
(* RestoreWorker.run                                                       *)
(***************************************************************************)
\* lines 141-143: the listing of the folder to clear
R_Start ==
    /\ wKind = "restore" /\ wPc = "start"
    /\ LET target == fs[SrcRoot]
           first == Progress(10, "Removing existing data...", "")
       IN  IF ~Exists(target)
           THEN /\ events' = Append(events, first)
                /\ wPc' = "list"
                /\ UNCHANGED <<wIdx, wList, wFault>>
           ELSE \E io \in IoOutcomes :
                  IF io # "ok" \/ ~IsDir(target)
                  THEN /\ events' = events \o <<first, Finished(FALSE, "OSError")>>
                       /\ wPc' = "done" /\ wFault' = "OSError"
                       /\ UNCHANGED <<wIdx, wList>>
                  ELSE \E order \in Orders(Listing(target)) :
                       /\ events' = Append(events, first)
                       /\ wList' = order
                       /\ wIdx' = 1
                       /\ wPc' = IF order = <<>> THEN "list" ELSE "del_check"
                       /\ UNCHANGED wFault
    /\ UNCHANGED <<wKind, wItems, wAddons, fs, cancelled, wAddonName, cancelAt>>
    /\ UNCHANGED notWorker

\* lines 144-146
R_DeleteCheck == wKind = "restore" /\ PollCancel("del_check", "del")

\* what a directory can look like after an rmtree that failed part-way
PartlyRemoved(node) ==
    IF IsDir(node)
    THEN { Dir([n \in K |-> node.kids[n]]) : K \in SUBSET DOMAIN node.kids }
    ELSE {node}

\* a deletion loop in which PermissionError is not caught
R_Delete_AbortOnPermission ==
    /\ wKind = "restore" /\ wPc = "del"
    /\ LET item == wList[wIdx] IN
       \E io \in IoOutcomes \cup {"PermissionError"} :
          IF io = "ok"
          THEN /\ fs' = SetRoot(SrcRoot, Remove(fs[SrcRoot], item))
               /\ LoopNext(Len(wList), "del_check", "list")
               /\ UNCHANGED <<events, wFault>>
          ELSE /\ Raise(io)
               /\ UNCHANGED <<fs, wIdx>>
    /\ UNCHANGED <<wKind, wItems, wAddons, cancelled, wList, wAddonName, cancelAt>>
    /\ UNCHANGED notWorker

\* lines 148-155: one entry of the folder to clear
R_Delete ==
    /\ wKind = "restore" /\ wPc = "del"
    /\ LET item == wList[wIdx] IN
       \E io \in IoOutcomes \cup {"PermissionError"} :
          CASE io = "ok" ->
                 /\ fs' = SetRoot(SrcRoot, Remove(fs[SrcRoot], item))
                 /\ LoopNext(Len(wList), "del_check", "list")
                 /\ UNCHANGED <<events, wFault>>
            [] io = "PermissionError" ->
                 /\ \E left \in PartlyRemoved(Kid(fs[SrcRoot], item)) :
                       fs' = SetEntry(SrcRoot, item, left)
                 /\ events' = Append(events, Log("WARN Cannot delete", item))
                 /\ LoopNext(Len(wList), "del_check", "list")
                 /\ UNCHANGED wFault
            [] OTHER ->
                 /\ Raise("OSError")
                 /\ UNCHANGED <<fs, wIdx>>
    /\ UNCHANGED <<wKind, wItems, wAddons, cancelled, wList, wAddonName, cancelAt>>
    /\ UNCHANGED notWorker

\* lines 158-160: the listing of the backup folder
R_List ==
    /\ wKind = "restore" /\ wPc = "list"
    /\ LET bak == fs[BakRoot]
           first == Progress(30, "Restoring data...", "")
       IN  \E io \in IoOutcomes :
             IF io # "ok" \/ ~IsDir(bak)
             THEN /\ events' = events \o <<first, Finished(FALSE, "OSError")>>
                  /\ wPc' = "done" /\ wFault' = "OSError"
                  /\ UNCHANGED <<wIdx, wList>>
             ELSE \E order \in Orders(Listing(bak) \ {"_addons"}) :
                  /\ events' = Append(events, first)
                  /\ wList' = order
                  /\ wIdx' = 1
                  /\ wPc' = IF order = <<>> THEN "addon_start" ELSE "copy_check"
                  /\ UNCHANGED wFault
    /\ UNCHANGED <<wKind, wItems, wAddons, fs, cancelled, wAddonName, cancelAt>>
    /\ UNCHANGED notWorker

\* lines 163-165
R_CopyCheck == wKind = "restore" /\ PollCancel("copy_check", "copy")

\* lines 167-176: one entry of the backup folder; copytree creates a missing
\* target folder, copy2 does not
R_Copy ==
    /\ wKind = "restore" /\ wPc = "copy"
    /\ LET item == wList[wIdx]
           src == Kid(fs[BakRoot], item)
           target == fs[SrcRoot]
           r == CopyEntry(src, Kid(target, item), item)
           parent == IF IsDir(target) THEN target ELSE EmptyDir
           reachable == IsDir(target) \/ (IsDir(src) /\ ~Exists(target))
       IN  \E io \in IoOutcomes :
             IF io # "ok" \/ ~reachable
             THEN Raise("OSError") /\ UNCHANGED <<fs, wIdx>>
             ELSE /\ fs' = SetRoot(SrcRoot, Put(parent, item, r.node))
                  /\ IF r.err
                     THEN Raise("OSError") /\ UNCHANGED wIdx
                     ELSE /\ events' = Append(events,
                                 Progress(Pct(30, wIdx, Len(wList), 50), "Restoring", item))
                          /\ LoopNext(Len(wList), "copy_check", "addon_start")
                          /\ UNCHANGED wFault
    /\ UNCHANGED <<wKind, wItems, wAddons, cancelled, wList, wAddonName, cancelAt>>
    /\ UNCHANGED notWorker

\* lines 179-181
R_AddonStart ==
    /\ wKind = "restore" /\ wPc = "addon_start"
    /\ IF Exists(Kid(fs[BakRoot], "_addons")) /\ wAddons # <<>>
       THEN /\ events' = Append(events, Log("Restoring addons", ""))
            /\ wPc' = "addon_check" /\ wIdx' = 1
       ELSE wPc' = "finish" /\ UNCHANGED <<events, wIdx>>
    /\ UNCHANGED <<wKind, wItems, wAddons, fs, cancelled, wList, wAddonName,
                   wFault, cancelAt>>
    /\ UNCHANGED notWorker

\* lines 184-186
R_AddonCheck == wKind = "restore" /\ PollCancel("addon_check", "addon_copy")

\* R_AddonCopy without the try of lines 192-204: a failure reaches the
\* handler of line 212
R_AddonCopy_NoCatch ==
    /\ wKind = "restore" /\ wPc = "addon_copy"
    /\ LET path == wAddons[wIdx]
           name == Basename(path)
           src == Kid(Kid(fs[BakRoot], "_addons"), name)
           cur == fs[path]
           pct == Progress(Pct(80, wIdx, Len(wAddons), 15), "Addon", name)
       IN  /\ wAddonName' = name
           /\ IF ~Exists(src)
              THEN /\ events' = Append(events, pct) /\ UNCHANGED <<fs, wFault>>
                   /\ LoopNext(Len(wAddons), "addon_check", "finish")
              ELSE \E io \in {"ok", "rmtree fails", "copy fails"} :
                     CASE io = "rmtree fails" \/ cur.kind = "file" ->
                            /\ Exists(cur)
                            /\ \E left \in PartlyRemoved(cur) : fs' = SetRoot(path, left)
                            /\ Raise("OSError") /\ UNCHANGED wIdx
                       [] io = "copy fails" ->
                            /\ fs' = SetRoot(path, Absent)
                            /\ Raise("OSError") /\ UNCHANGED wIdx
                       [] OTHER ->
                            /\ fs' = SetRoot(path, CopyEntry(src, Absent, name).node)
                            /\ events' = events \o <<Log("OK Addon restored", name), pct>>
                            /\ LoopNext(Len(wAddons), "addon_check", "finish")
                            /\ UNCHANGED wFault
    /\ UNCHANGED <<wKind, wItems, wAddons, cancelled, wList, cancelAt>>
    /\ UNCHANGED notWorker

\* lines 188-207: one addon, put back at its own path
R_AddonCopy ==
    /\ wKind = "restore" /\ wPc = "addon_copy"
    /\ LET path == wAddons[wIdx]
           name == Basename(path)
           src == Kid(Kid(fs[BakRoot], "_addons"), name)
           cur == fs[path]
           pct == Progress(Pct(80, wIdx, Len(wAddons), 15), "Addon", name)
           fail == <<Log("FAIL Addon", name), pct>>
       IN  /\ wAddonName' = name
           /\ IF ~Exists(src)
              THEN events' = Append(events, pct) /\ UNCHANGED fs
              ELSE \E io \in {"ok", "rmtree fails", "copy fails"} :
                     CASE io = "rmtree fails" \/ cur.kind = "file" ->
                            /\ Exists(cur)
                            /\ \E left \in PartlyRemoved(cur) : fs' = SetRoot(path, left)
                            /\ events' = events \o fail
                       [] io = "copy fails" ->
                            /\ fs' = SetRoot(path, Absent)
                            /\ events' = events \o fail
                       [] OTHER ->
                            /\ fs' = SetRoot(path, CopyEntry(src, Absent, name).node)
                            /\ events' = events \o <<Log("OK Addon restored", name), pct>>
    /\ LoopNext(Len(wAddons), "addon_check", "finish")
    /\ UNCHANGED <<wKind, wItems, wAddons, cancelled, wList, wFault, cancelAt>>
    /\ UNCHANGED notWorker

\* lines 209-210
R_Finish ==
    /\ wKind = "restore" /\ wPc = "finish"
    /\ events' = events \o <<Progress(100, "Restore complete!", ""), Finished(TRUE, "Restore complete")>>
    /\ wPc' = "done"
    /\ UNCHANGED <<wKind, wItems, wAddons, fs, cancelled, wIdx, wList,
                   wAddonName, wFault, cancelAt>>
    /\ UNCHANGED notWorker

(***************************************************************************)
(* The inputs of a run.                                                    *)
(***************************************************************************)
OneFile(name, d) == [n \in {name} |-> File(d)]

\* the application's data folder
SrcFull == Dir([n \in {"User", "cfg"} |->
                  IF n = "User" THEN Dir(OneFile("f", "d1")) ELSE File("d1")])
SrcNoUser == Dir(OneFile("cfg", "d1"))
SrcChoices == {SrcFull, SrcNoUser, Absent}

\* the backup folder
BakOld == Dir([n \in {"cfg", "old"} |-> File("d2")])
BakFull == Dir([n \in {"User", "_addons"} |->
                  IF n = "User" THEN Dir(OneFile("g", "d2"))
                  ELSE Dir([m \in {"ext"} |-> Dir([k \in {"h", "ext"} |-> File("d2")])])])
BakChoices == {Absent, BakOld, BakFull}

\* the addon folders
AddonChoices(path) ==
    IF path[1] = "x" THEN {Absent, Dir(OneFile("h", "d1"))} ELSE {Absent, File("d1")}

\* the items a manifest declares
ItemChoices ==
    { [path |-> "User", optional |-> FALSE],
      [path |-> "cfg", optional |-> TRUE],
      [path |-> "", optional |-> FALSE] }

WorkerInit ==
    /\ wKind \in {"backup", "restore"}
    /\ wItems \in IF wKind = "backup" THEN SeqsUpTo(ItemChoices, MaxItems) ELSE { <<>> }
    /\ wAddons \in SeqsUpTo(AddonPaths, MaxAddons)
    /\ fs \in { f \in [Locations -> SrcChoices \cup BakChoices \cup UNION {AddonChoices(a) : a \in AddonPaths}] :
                  /\ f[SrcRoot] \in SrcChoices
                  /\ f[BakRoot] \in BakChoices
                  /\ \A a \in AddonPaths : f[a] \in AddonChoices(a) }
    /\ cancelled = FALSE
    /\ wPc = "start"
    /\ wIdx = 0
    /\ wList = <<>>
    /\ wAddonName = "unbound"
    /\ wFault = "none"
    /\ cancelAt = "never"
    /\ events = <<>>
    /\ fs0 = fs

WorkerNext ==
    \/ Cancel
    \/ B_Start \/ B_ItemCheck \/ B_ItemCopy \/ B_FallbackCheck \/ B_FallbackCopy
    \/ B_AddonStart \/ B_AddonCheck \/ B_AddonCopy \/ B_Finish
    \/ R_Start \/ R_DeleteCheck \/ R_Delete \/ R_List \/ R_CopyCheck \/ R_Copy
    \/ R_AddonStart \/ R_AddonCheck \/ R_AddonCopy \/ R_Finish

(***************************************************************************)
(* run_in_thread (app/core/workers.py 216-227) and the thread it builds.   *)
(* The QThread object lives in the caller's thread, the worker is moved to *)
(* the new thread: a signal of the worker reaches a slot of the worker by  *)
(* a direct call and a slot of the QThread object by a queued call that    *)
(* the caller's event loop makes.                                          *)
(***************************************************************************)
\* the statements of run
WorkerProgram ==
    \/ B_Start \/ B_ItemCheck \/ B_ItemCopy \/ B_FallbackCheck \/ B_FallbackCopy
    \/ B_AddonStart \/ B_AddonCheck \/ B_AddonCopy \/ B_Finish
    \/ R_Start \/ R_DeleteCheck \/ R_Delete \/ R_List \/ R_CopyCheck \/ R_Copy
    \/ R_AddonStart \/ R_AddonCheck \/ R_AddonCopy \/ R_Finish

\* finished signals emitted by the worker so far
Emitted == Cardinality({i \in 1..Len(events) : events[i].t = "finished"})

\* lines 218-227: thread = QThread(), moveToThread, the four connections
ThreadBuilt ==
    thPc = "built" /\ thDispatched = 0 /\ thQuit = "no" /\ wDel = "no" /\ thDel = "no"

\* the caller: self._backup_thread.start() (tab_account.py 996, 1088)
Th_Start ==
    /\ thPc = "built"
    /\ thPc' = "started"
    /\ UNCHANGED <<thDispatched, thQuit, wDel, thDel>>
    /\ UNCHANGED <<killerVars, workerVars, guiVars, moreVars>>

\* line 222: thread.started.connect(worker.run); the new thread emits
\* started and with it calls run
Th_Started ==
    /\ thPc = "started"
    /\ thPc' = "running"
    /\ UNCHANGED <<thDispatched, thQuit, wDel, thDel>>
    /\ UNCHANGED <<killerVars, workerVars, guiVars, moreVars>>

\* run, statement by statement, on the new thread
Th_Run ==
    /\ thPc = "running"
    /\ WorkerProgram

\* the connections of finished with worker.finished not connected to
\* thread.quit
Th_Dispatch_NoQuit ==
    /\ thPc = "running"
    /\ thDispatched < Emitted
    /\ thDispatched' = thDispatched + 1
    /\ wDel' = IF wDel = "no" THEN "later" ELSE wDel
    /\ UNCHANGED <<thPc, thQuit, thDel>>
    /\ UNCHANGED <<killerVars, workerVars, guiVars, moreVars>>

\* lines 223-224: worker.finished.connect(thread.quit) and
\* worker.finished.connect(worker.deleteLater); the emit calls the slots in
\* the order connected before it returns
Th_Dispatch ==
    /\ thPc = "running"
    /\ thDispatched < Emitted
    /\ thDispatched' = thDispatched + 1
    /\ thQuit' = IF thQuit = "no" THEN "posted" ELSE thQuit
    /\ wDel' = IF wDel = "no" THEN "later" ELSE wDel
    /\ UNCHANGED <<thPc, thDel>>
    /\ UNCHANGED <<killerVars, workerVars, guiVars, moreVars>>

\* run returns and the thread enters its event loop
Th_RunReturns ==
    /\ thPc = "running"
    /\ wPc = "done"
    /\ thDispatched = Emitted
    /\ thPc' = "exec"
    /\ UNCHANGED <<thDispatched, thQuit, wDel, thDel>>
    /\ UNCHANGED <<killerVars, workerVars, guiVars, moreVars>>

\* line 223: the caller's event loop makes the queued call of thread.quit
Th_Quit ==
    /\ thQuit = "posted"
    /\ thQuit' = "exit"
    /\ UNCHANGED <<thPc, thDispatched, wDel, thDel>>
    /\ UNCHANGED <<killerVars, workerVars, guiVars, moreVars>>

\* line 225: the event loop ends on quit, and the thread emits finished: a
\* queued call of thread.deleteLater
Th_ExitLoop ==
    /\ thPc = "exec"
    /\ thQuit = "exit"
    /\ thPc' = "finished"
    /\ thDel' = "posted"
    /\ UNCHANGED <<thDispatched, thQuit, wDel>>
    /\ UNCHANGED <<killerVars, workerVars, guiVars, moreVars>>

\* line 225: the caller's event loop makes the queued call of
\* thread.deleteLater
Th_FinishedSlot ==
    /\ thDel = "posted"
    /\ thDel' = "later"
    /\ UNCHANGED <<thPc, thDispatched, thQuit, wDel>>
    /\ UNCHANGED <<killerVars, workerVars, guiVars, moreVars>>

ThreadNext ==
    \/ Th_Start \/ Th_Started \/ Th_Run \/ Th_Dispatch \/ Th_RunReturns
    \/ Th_Quit \/ Th_ExitLoop \/ Th_FinishedSlot
    \/ Cancel

\* the new thread runs, and the caller's event loop runs
OnThread ==
    \/ Th_Started \/ Th_Run \/ Th_Dispatch \/ Th_RunReturns \/ Th_ExitLoop
OnCaller == Th_Quit \/ Th_FinishedSlot

(***************************************************************************)
(* The handlers of the account tab that close the app and then start a     *)
(* transfer (app/gui/tab_account.py): _on_app_click with _force_close_app  *)
(* and _create_backup, and _load_session.                                  *)
(***************************************************************************)
\* process_killer.py 183: the defaults the handlers leave to smart_close
DefaultTimeout == 10
DefaultMaxRetries == 3

\* lines 305-306, 1025-1026: process_names built from the exe_paths of the config,
\* which may hold none
GuiNameLists == NameLists \cup { <<>> }

\* the handler has been entered
GuiIdle ==
    guiPc = "idle" /\ guiKind = "none" /\ guiFound = FALSE /\ guiAnswer = "none"

\* lines 287-309 and 1014-1045: up to killer = ProcessKiller(...); a handler
\* returns early when the app, its data path or the backup is not found
G_Enter(kind, nms, found) ==
    /\ guiPc = "idle"
    /\ CanCall
    /\ guiKind' = kind
    /\ names' = nms
    /\ guiPc' = IF ~found THEN "returned"
               ELSE IF kind = "backup" /\ nms = <<>> THEN "name"   \* lines 333-334
               ELSE "query"
    /\ UNCHANGED <<guiFound, guiAnswer>>
    /\ UNCHANGED <<envVars, cacheVars, calls, op, timeout, maxRetries, ret,
                   lastQuery, scVars, kaVars, kpVars, waitVars>>
    /\ UNCHANGED <<workerVars, threadVars, moreVars>>

\* lines 337-339 and 1046-1048: procs = killer.get_running_processes(...)
G_Query ==
    /\ guiPc = "query"
    /\ calls' = calls + 1
    /\ \E u \in EnumStops :
        LET r == GetRunningProcesses(names, u) IN
        /\ Query(r)
        /\ guiFound' = (r.res # <<>>)
        /\ guiPc' = IF r.res # <<>> THEN "prompt"
                   ELSE IF guiKind = "backup" THEN "name" ELSE "start"
    /\ UNCHANGED <<guiKind, guiAnswer>>
    /\ UNCHANGED <<envVars, op, names, timeout, maxRetries, ret,
                   scVars, kaVars, kpVars, waitVars>>
    /\ UNCHANGED <<workerVars, threadVars, moreVars>>

\* lines 347-356 and 1053-1063: the "App Running" box, then
\* killer.smart_close(name, process_names).  On Cancel _force_close_app
\* returns to _on_app_click, which goes on (line 313); _load_session returns.
G_Prompt ==
    /\ guiPc = "prompt"
    /\ \E a \in {"ok", "cancel"} :
        /\ guiAnswer' = a
        /\ IF a = "cancel"
           THEN /\ guiPc' = IF guiKind = "backup" THEN "name" ELSE "returned"
                /\ UNCHANGED <<calls, op, timeout, maxRetries, ret, scVars, kaVars, kpVars>>
           ELSE /\ guiPc' = "closing"
                /\ calls' = calls + 1
                /\ timeout' = DefaultTimeout /\ maxRetries' = DefaultMaxRetries
                /\ op' = "smart_close" /\ ret' = NoTopRet
                /\ scPc' = "check" /\ scAttempt' = 1 /\ scTrace' = <<>> /\ scRet' = NoRet
                /\ ResetKillAll
                /\ ResetKillProcess
    /\ UNCHANGED <<guiKind, guiFound>>
    /\ UNCHANGED <<envVars, cacheVars, names, lastQuery, waitVars>>
    /\ UNCHANGED <<workerVars, threadVars, moreVars>>

\* lines 356-358 and 1063-1065: success, message = killer.smart_close(...);
\* the message is logged and success is not looked at
G_Closed ==
    /\ guiPc = "closing"
    /\ op = "idle" /\ ret.op = "smart_close"
    /\ guiPc' = IF guiKind = "backup" THEN "name" ELSE "start"
    /\ UNCHANGED <<guiKind, guiFound, guiAnswer>>
    /\ UNCHANGED killerVars
    /\ UNCHANGED <<workerVars, threadVars, moreVars>>

\* lines 313-327 and 966-974: the session name; the handler returns when
\* the dialog is cancelled, the name is taken or no data is found
G_Name(go) ==
    /\ guiPc = "name"
    /\ guiPc' = IF go THEN "start" ELSE "returned"
    /\ UNCHANGED <<guiKind, guiFound, guiAnswer>>
    /\ UNCHANGED killerVars
    /\ UNCHANGED <<workerVars, threadVars, moreVars>>

\* lines 987-996 and 1079-1088: the worker, run_in_thread, thread.start()
G_Start ==
    /\ guiPc = "start"
    /\ guiPc' = "started"
    /\ thPc' = "started"
    /\ UNCHANGED <<thDispatched, thQuit, wDel, thDel>>
    /\ UNCHANGED <<guiKind, guiFound, guiAnswer>>
    /\ UNCHANGED killerVars
    /\ UNCHANGED <<workerVars, moreVars>>

GuiNext ==
    \/ \E p \in Procs : ProcSpawn(p)
    \/ \E p \in Procs : ProcExit(p)
    \/ Tick
    \/ \E k \in {"backup", "restore"}, nms \in GuiNameLists, f \in BOOLEAN :
          G_Enter(k, nms, f)
    \/ G_Query \/ G_Prompt \/ G_Closed
    \/ \E go \in BOOLEAN : G_Name(go)
    \/ G_Start
    \/ SC_Check \/ SC_NotRunningSettle \/ SC_AfterKill \/ SC_ClosedSettle
    \/ SC_RetrySleep \/ SC_Final \/ SC_FinalSettle
    \/ KA_Query1 \/ KA_CallKill \/ KA_AfterKill \/ KA_Sleep1 \/ KA_Query2
    \/ KA_ForceKill \/ KA_ForceWait \/ KA_Sleep2 \/ KA_Query3
    \/ KP_Check \/ KP_Terminate \/ KP_Wait \/ KP_Kill \/ KP_Wait2

(***************************************************************************)
(* The specifications: the termination controller on its own, and one run  *)
(* of a worker on its own.                                                 *)
(***************************************************************************)
vars == <<killerVars, workerVars, threadVars, guiVars, moreVars>>

\* no worker exists
WorkerParked ==
    /\ wKind = "none" /\ wItems = <<>> /\ wAddons = <<>>
    /\ fs = [l \in Locations |-> Absent]
    /\ cancelled = FALSE /\ wPc = "done" /\ wIdx = 0 /\ wList = <<>>
    /\ wAddonName = "unbound" /\ wFault = "none" /\ cancelAt = "never"
    /\ events = <<>>
    /\ fs0 = fs

\* no thread has been built
ThreadParked ==
    thPc = "none" /\ thDispatched = 0 /\ thQuit = "no" /\ wDel = "no" /\ thDel = "no"

\* no handler of the account tab is running
GuiParked ==
    guiPc = "none" /\ guiKind = "none" /\ guiFound = FALSE /\ guiAnswer = "none"

\* no ProcessKiller is in use
KillerParked ==
    /\ procState = [p \in Procs |-> "unborn"]
    /\ psutil = TRUE
    /\ cache = << >> /\ ttl = 0 /\ calls = 1 /\ op = "idle"
    /\ names = <<>> /\ timeout = 0 /\ maxRetries = 0
    /\ ret = NoTopRet /\ lastQuery = NoQuery
    /\ scPc = "idle" /\ scAttempt = 0 /\ scTrace = <<>> /\ scRet = NoRet
    /\ kaPc = "idle" /\ kaRunning = <<>> /\ kaRemaining = <<>> /\ kaIdx = 0
    /\ kaKilled = 0 /\ kaTrace = <<>> /\ kaRet = NoRet
    /\ kpPc = "idle" /\ kpProc = 0 /\ kpTimeout = 0 /\ kpTrace = <<>>
    /\ kpRet = NoRet /\ kpExc = "none"
    /\ wfPc = "idle" /\ wfElapsed = 0 /\ wfPolls = <<>>

\* no caller is querying a ProcessKiller again and again
QueryParked ==
    qLeft = 0 /\ qBorn = << >> /\ qSeen = NoSeen /\ peer = NoPeer /\ tab = NoTab

\* a ProcessKiller at work, no worker
InitKiller == KillerInit /\ WorkerParked /\ ThreadParked /\ GuiParked /\ QueryParked

\* a worker at work, no ProcessKiller
InitWorker == WorkerInit /\ KillerParked /\ ThreadParked /\ GuiParked /\ QueryParked

SpecKiller == InitKiller /\ [][KillerNext]_vars

\* the statements of a ProcessKiller operation under way: the thread that
\* runs it keeps running, and every sleep and wait is bounded
KillerProgram ==
    \/ SC_Check \/ SC_NotRunningSettle \/ SC_AfterKill \/ SC_ClosedSettle
    \/ SC_RetrySleep \/ SC_Final \/ SC_FinalSettle
    \/ KA_Query1 \/ KA_CallKill \/ KA_AfterKill \/ KA_Sleep1 \/ KA_Query2
    \/ KA_ForceKill \/ KA_ForceWait \/ KA_Sleep2 \/ KA_Query3 \/ ReturnKillAll
    \/ KP_Check \/ KP_Terminate \/ KP_Wait \/ KP_Kill \/ KP_Wait2
    \/ ReturnKillProcess
    \/ Wait_Test \/ Wait_Poll \/ Wait_Sleep

SpecKillerFair == SpecKiller /\ WF_vars(KillerProgram)

SpecWorker == InitWorker /\ [][WorkerNext]_vars

\* a click on an app button, or on the load button of a session
InitGui == KillerInit /\ WorkerParked /\ ThreadParked /\ GuiIdle /\ QueryParked

SpecGui == InitGui /\ [][GuiNext]_vars

\* a worker handed to run_in_thread
InitThread == WorkerInit /\ ThreadBuilt /\ KillerParked /\ GuiParked /\ QueryParked

SpecThread ==
    InitThread /\ [][ThreadNext]_vars /\ WF_vars(OnThread) /\ WF_vars(OnCaller)

\* a restore into a folder that holds an "_addons" entry of its own
SrcWithAddons ==
    Dir([n \in {"cfg", "_addons"} |->
           IF n = "cfg" THEN File("d1") ELSE Dir([m \in {"ext"} |-> Dir(OneFile("h", "d1"))])])

RestoreInit ==
    /\ wKind = "restore"
    /\ wItems = <<>>
    /\ wAddons \in SeqsUpTo(AddonPaths, MaxAddons)
    /\ fs \in { f \in [Locations -> {SrcWithAddons, SrcFull} \cup BakChoices
                                      \cup UNION {AddonChoices(a) : a \in AddonPaths}] :
                  /\ f[SrcRoot] \in {SrcWithAddons, SrcFull}
                  /\ f[BakRoot] \in BakChoices
                  /\ \A a \in AddonPaths : f[a] \in AddonChoices(a) }
    /\ cancelled = FALSE
    /\ wPc = "start"
    /\ wIdx = 0
    /\ wList = <<>>
    /\ wAddonName = "unbound"
    /\ wFault = "none"
    /\ cancelAt = "never"
    /\ events = <<>>
    /\ fs0 = fs

RestoreNext ==
    \/ Cancel
    \/ R_Start \/ R_DeleteCheck \/ R_Delete \/ R_List \/ R_CopyCheck \/ R_Copy
    \/ R_AddonStart \/ R_AddonCheck \/ R_AddonCopy \/ R_Finish

\* a RestoreWorker at work
InitRestore == RestoreInit /\ KillerParked /\ ThreadParked /\ GuiParked /\ QueryParked

SpecRestore == InitRestore /\ [][RestoreNext]_vars

(***************************************************************************)
(* Two workers at once: _create_backup and _load_session keep the worker   *)
(* and its thread in attributes of the tab (self._backup_worker,           *)
(* self._backup_thread, self._restore_worker, self._restore_thread) and    *)
(* nothing keeps the user from starting an operation while one is running. *)
(* One worker executes at a time here; Switch hands the processor to the   *)
(* other.  The two share the file system and nothing else.                 *)
(*                                                                         *)
(* A second operation of the same kind rebinds the attribute that held     *)
(* the only reference to the first QThread (line 988, 1080).  PyQt then    *)
(* deletes the C++ object; Qt ends the process when the thread of a        *)
(* deleted QThread is still running ("QThread: Destroyed while thread is   *)
(* still running"), and a build in which it does not lets both go on.      *)
(* These rules are PyQt's and Qt's, not code of src/.                      *)
(***************************************************************************)
\* the fields of the executing worker, to be put aside
Saved ==
    [kind |-> wKind, items |-> wItems, addons |-> wAddons, cancelled |-> cancelled,
     pc |-> wPc, idx |-> wIdx, list |-> wList, addonName |-> wAddonName,
     fault |-> wFault, cancelAt |-> cancelAt, events |-> events]

\* BackupWorker(...) / RestoreWorker(...): a worker as __init__ leaves it
NewWorker(kind, items, at) ==
    [kind |-> kind, items |-> items, addons |-> wAddons, cancelled |-> FALSE,
     pc |-> at, idx |-> 0, list |-> <<>>, addonName |-> "unbound",
     fault |-> "none", cancelAt |-> "never", events |-> <<>>]

\* the worker w becomes the executing one
Resume(w) ==
    /\ wKind' = w.kind /\ wItems' = w.items /\ wAddons' = w.addons
    /\ cancelled' = w.cancelled /\ wPc' = w.pc /\ wIdx' = w.idx
    /\ wList' = w.list /\ wAddonName' = w.addonName /\ wFault' = w.fault
    /\ cancelAt' = w.cancelAt /\ events' = w.events

\* the manifests of the operations started from the tab
PairItems == { <<>>, <<[path |-> "User", optional |-> FALSE]>> }

\* lines 987-996, 1079-1088 while an earlier worker is held by the tab
G_StartAnother(kind, items) ==
    /\ peer = NoPeer /\ wPc # "aborted"
    /\ kind = "restore" => items = <<>>
    /\ \E out \in {"runs", "aborts"} :
          IF out = "aborts"
          THEN /\ kind = wKind /\ wPc # "done"
               /\ wPc' = "aborted"
               /\ peer' = NewWorker(kind, items, "aborted")
               /\ tab' = [tab EXCEPT !.restore_name = IF kind = "restore" THEN 2 ELSE @]
               /\ UNCHANGED <<wKind, wItems, wAddons, cancelled, wIdx, wList,
                              wAddonName, wFault, cancelAt, events>>
          ELSE /\ peer' = Saved
               /\ Resume(NewWorker(kind, items, "start"))
               /\ tab' = [tab EXCEPT !.cur = 2,
                                     !.restore_name = IF kind = "restore" THEN 2 ELSE @]
    /\ UNCHANGED <<fs, fs0, queryVars>>
    /\ UNCHANGED <<killerVars, threadVars, guiVars>>

\* the scheduler runs the other worker's thread
Switch ==
    /\ peer # NoPeer /\ wPc # "aborted" /\ peer.pc # "done"
    /\ peer' = Saved
    /\ Resume(peer)
    /\ tab' = [tab EXCEPT !.cur = 3 - @]
    /\ UNCHANGED <<fs, fs0, queryVars>>
    /\ UNCHANGED <<killerVars, threadVars, guiVars>>

\* tab_account.py 1095-1105: _on_restore_finished(success, message), the
\* slot of the finished signal of a RestoreWorker; on success it logs
\* "Restored: <self._restore_name>" and makes that session the active one
\* (on failure it only writes the message to the progress bar and the log)
G_RestoreFinished ==
    /\ wPc # "aborted"
    /\ \E who \in {"executing", "other"} :
          LET w == IF who = "executing" THEN Saved ELSE peer
              by == IF who = "executing" THEN tab.cur ELSE 3 - tab.cur
          IN  /\ w # NoPeer
              /\ w.kind = "restore" /\ w.pc = "done" /\ w.events # <<>>
              /\ w.events[Len(w.events)] = Finished(TRUE, "Restore complete")
              /\ \A r \in tab.said : r.by # by
              /\ tab' = [tab EXCEPT !.said = @ \cup
                           {[by |-> by, name |-> tab.restore_name]}]
    /\ UNCHANGED <<workerVars, fs0, queryVars, peer>>
    /\ UNCHANGED <<killerVars, threadVars, guiVars>>

\* cancel() of the executing worker
P_Cancel == wPc # "aborted" /\ Cancel

PairInit ==
    /\ wKind \in {"backup", "restore"}
    /\ wItems \in IF wKind = "backup" THEN PairItems ELSE { <<>> }
    /\ wAddons = << <<"x", "ext">> >>
    /\ fs = [l \in Locations |->
               CASE l = SrcRoot -> SrcFull
                 [] l = BakRoot -> BakFull
                 [] l = <<"x", "ext">> -> Dir(OneFile("h", "d1"))
                 [] OTHER -> Absent]
    /\ cancelled = FALSE
    /\ wPc = "start"
    /\ wIdx = 0
    /\ wList = <<>>
    /\ wAddonName = "unbound"
    /\ wFault = "none"
    /\ cancelAt = "never"
    /\ events = <<>>
    /\ fs0 = fs

PairNext ==
    \/ \E k \in {"backup", "restore"}, items \in PairItems : G_StartAnother(k, items)
    \/ Switch
    \/ P_Cancel
    \/ G_RestoreFinished
    \/ B_Start \/ B_ItemCheck \/ B_ItemCopy \/ B_FallbackCheck \/ B_FallbackCopy
    \/ B_AddonStart \/ B_AddonCheck \/ B_AddonCopy \/ B_Finish
    \/ R_Start \/ R_DeleteCheck \/ R_Delete \/ R_List \/ R_CopyCheck \/ R_Copy
    \/ R_AddonStart \/ R_AddonCheck \/ R_AddonCopy \/ R_Finish

\* a worker at work and a tab that may start another
InitPair ==
    /\ PairInit /\ KillerParked /\ ThreadParked /\ GuiParked
    /\ qLeft = 0 /\ qBorn = << >> /\ qSeen = NoSeen /\ peer = NoPeer
    /\ tab = [NoTab EXCEPT !.restore_name = IF wKind = "restore" THEN 1 ELSE 0]

SpecPair == InitPair /\ [][PairNext]_vars

(***************************************************************************)
(* A session saved and loaded again: one BackupWorker run to its end, then *)
(* one RestoreWorker built with the same backup folder, data folder and    *)
(* addon paths (app/gui/tab_account.py, _create_backup and _load_session). *)
(***************************************************************************)
\* tab_account.py 1079: RestoreWorker(backup_folder, data_path, addon_paths)
\* for a session that a finished backup wrote
RT_Restore ==
    /\ wKind = "backup" /\ wPc = "done" /\ peer = NoPeer
    /\ events # <<>> /\ events[Len(events)] = Finished(TRUE, "Backup complete")
    /\ peer' = Saved
    /\ Resume(NewWorker("restore", <<>>, "start"))
    /\ UNCHANGED <<fs, fs0, queryVars, tab>>
    /\ UNCHANGED <<killerVars, threadVars, guiVars>>

\* between the two runs the application rewrites its data folder
RT_DataChanges ==
    /\ wKind = "backup" /\ wPc = "done" /\ peer = NoPeer
    /\ \E new \in {SrcFull, SrcNoUser} \ {fs[SrcRoot]} : fs' = SetRoot(SrcRoot, new)
    /\ UNCHANGED <<wKind, wItems, wAddons, cancelled, wPc, wIdx, wList, wAddonName,
                   wFault, cancelAt, events>>
    /\ UNCHANGED notWorker

\* the addon folders of two applications may both be folders named "ext"
RoundAddonChoices(path) ==
    AddonChoices(path) \cup (IF path[1] = "y" THEN {Dir(OneFile("k", "d2"))} ELSE {})

RoundInit ==
    /\ wKind = "backup"
    /\ wItems \in PairItems
    /\ wAddons \in SeqsUpTo(AddonPaths, MaxAddons)
    /\ fs \in { f \in [Locations -> {SrcWithAddons, SrcFull, Absent, EmptyDir}
                                      \cup UNION {RoundAddonChoices(a) : a \in AddonPaths}] :
                  /\ f[SrcRoot] \in {SrcWithAddons, SrcFull}
                  /\ f[BakRoot] \in {Absent, EmptyDir}
                  /\ \A a \in AddonPaths : f[a] \in RoundAddonChoices(a) }
    /\ cancelled = FALSE
    /\ wPc = "start"
    /\ wIdx = 0
    /\ wList = <<>>
    /\ wAddonName = "unbound"
    /\ wFault = "none"
    /\ cancelAt = "never"
    /\ events = <<>>
    /\ fs0 = fs

RoundNext ==
    \/ RT_Restore \/ RT_DataChanges
    \/ B_Start \/ B_ItemCheck \/ B_ItemCopy \/ B_FallbackCheck \/ B_FallbackCopy
    \/ B_AddonStart \/ B_AddonCheck \/ B_AddonCopy \/ B_Finish
    \/ R_Start \/ R_DeleteCheck \/ R_Delete \/ R_List \/ R_CopyCheck \/ R_Copy
    \/ R_AddonStart \/ R_AddonCheck \/ R_AddonCopy \/ R_Finish

\* a BackupWorker at work, a RestoreWorker to follow
InitRound == RoundInit /\ KillerParked /\ ThreadParked /\ GuiParked /\ QueryParked

SpecRound == InitRound /\ [][RoundNext]_vars

\* a caller about to query one ProcessKiller several times
InitCache ==
    /\ KillerInit /\ psutil
    /\ WorkerParked /\ ThreadParked /\ GuiParked
    /\ qLeft = MaxQueries /\ qBorn = << >> /\ qSeen = NoSeen /\ peer = NoPeer
    /\ tab = NoTab

SpecCache == InitCache /\ [][CacheNext]_vars

(***************************************************************************)
(* Properties of the termination controller.                               *)
(***************************************************************************)
\* occurrences of e in the sequence s
Count(s, e) == Cardinality({i \in 1..Len(s) : s[i] = e})

\* C1: smart_close returns failure only after max_retries kill_all calls,
\* each of which failed, and a follow-up query, made after the last of them,
\* that still finds matching processes.
C1_FailureOnlyAfterRetries ==
    (ret.op = "smart_close" /\ ~ret.ok) =>
        /\ Count(scTrace, "kill_all") = maxRetries
        /\ Count(scTrace, "failed") = maxRetries
        /\ Count(scTrace, "closed") = 0
        /\ scTrace[Len(scTrace)] = "query"
        /\ lastQuery.n > 0

C1_Witness ==
    /\ ret.op = "smart_close" /\ ~ret.ok
    /\ maxRetries = 2
    /\ Count(scTrace, "failed") = 2

\* the full escalation of kill_process
KpEscalation == <<"is_running", "terminate", "wait_timeout", "kill", "wait2_timeout">>

\* the events of a kill_process call, without the outcome of the waits
KpCalls ==
    [i \in 1..Len(kpTrace) |->
        CASE kpTrace[i] = "wait_timeout" -> "wait"
          [] kpTrace[i] \in {"wait2", "wait2_timeout"} -> "wait2"
          [] OTHER -> kpTrace[i]]

\* C6: kill_process escalates in order.  A process that is not running gets
\* no signal and the call succeeds; terminate comes first, kill only after
\* the graceful wait timed out, the failure for a timeout only after the
\* 2-second wait of the forceful kill timed out too (by then the 2-second
\* cache has expired); at most one terminate and one kill per call.
C6_KillProcessEscalation ==
    /\ KpCalls = SubSeq(<<"is_running", "terminate", "wait", "kill", "wait2">>,
                        1, Len(kpTrace))
    /\ Count(kpTrace, "kill") = 1 => kpTrace[3] = "wait_timeout"
    /\ (kpPc = "ret" /\ kpRet.msg = "already terminated") =>
           kpRet.ok /\ kpTrace = <<"is_running">>
    /\ (kpPc = "ret" /\ kpExc = "TimeoutExpired") =>
           ~kpRet.ok /\ kpTrace = KpEscalation /\ ttl = 0

C6_Witness ==
    kpPc = "ret" /\ kpExc = "TimeoutExpired" /\ kpTrace = KpEscalation

\* C7: kill_all on names with no running match returns
\* (True, "No processes running") after its one query: no kill_process, no
\* kill, no sleep and no second query.
C7_KillAllNothingRunning ==
    (kaPc = "ret" /\ kaRunning = <<>>) =>
        /\ kaRet = Result(TRUE, "No processes running", 0)
        /\ kaTrace = <<"query">>
        /\ kpPc = "idle" /\ kpTrace = <<>>

C7_Witness ==
    kaPc = "ret" /\ kaRunning = <<>> /\ lastQuery.enum /\ op = "kill_all"

\* the events of the force loop of kill_all: a kill per survivor, each
\* followed by a wait unless the kill raised
ForceLoopShape(mid) ==
    /\ \A i \in 1..Len(mid) : mid[i] \in {"kill", "wait"}
    /\ Count(mid, "kill") = Len(kaRemaining)
    /\ \A i \in 1..Len(mid) : mid[i] = "wait" => i > 1 /\ mid[i - 1] = "kill"

\* C8: when kill_all finds running processes it calls kill_process once per
\* handle found, whatever the results, sleeps and re-queries; survivors of
\* that query get kill and wait directly, then a second sleep and a final
\* query follow.  It fails exactly when the last query it made returned
\* handles, and the failure reports their number.
C8_KillAllSequence ==
    (kaPc = "ret" /\ kaRunning # <<>>) =>
        LET n == Len(kaRunning)
            head == <<"query">> \o [i \in 1..n |-> "kill_process"] \o <<"sleep", "query">>
        IN  /\ SubSeq(kaTrace, 1, n + 3) = head
            /\ IF kaRemaining = <<>>
               THEN kaTrace = head
               ELSE /\ Len(kaTrace) >= n + 6
                    /\ SubSeq(kaTrace, Len(kaTrace) - 1, Len(kaTrace)) = <<"sleep", "query">>
                    /\ ForceLoopShape(SubSeq(kaTrace, n + 4, Len(kaTrace) - 2))
            /\ kaRet.ok <=> lastQuery.n = 0
            /\ ~kaRet.ok => kaRet.msg = "Failed to kill" /\ kaRet.n = lastQuery.n
            /\ kaRet.ok => kaRet.msg = "Killed" /\ kaRet.n = kaKilled

C8_Witness ==
    /\ kaPc = "ret" /\ Len(kaRunning) = 2 /\ Len(kaRemaining) = 2
    /\ ~kaRet.ok /\ kaRet.n = 2 /\ kaKilled = 0

\* C9: kill_process succeeds when the process is gone at any step (not
\* running at the check, NoSuchProcess from terminate or kill, a wait that
\* returns), fails when a step raises AccessDenied, and no exception leaves
\* it.
C9_KillProcessVerdicts ==
    /\ kpPc # "raised"
    /\ (kpPc = "ret" /\ psutil) =>
        /\ kpExc \in {"none", "NoSuchProcess"} => kpRet.ok /\ ~StillRunning(kpProc)
        /\ kpExc = "AccessDenied" => ~kpRet.ok
        /\ kpRet.ok => kpExc \in {"none", "NoSuchProcess"}

C9_Witness ==
    /\ kpPc = "ret" /\ kpExc = "NoSuchProcess" /\ kpRet.ok
    /\ kpTrace = <<"is_running", "terminate", "wait_timeout", "kill">>

(***************************************************************************)
(* Properties of the transfer workers.                                     *)
(***************************************************************************)
\* the last signal emitted
LastEvent == events[Len(events)]

\* the positions of the finished signals
FinishedAt == {i \in 1..Len(events) : events[i].t = "finished"}

\* the progress signals, in the order emitted
ProgressSeq == SelectSeq(events, LAMBDA e : e.t = "progress")

\* the run emitted finished(False, "Cancelled")
Detected == \E i \in 1..Len(events) : events[i] = Finished(FALSE, "Cancelled")

\* the places where run polls the flag
CheckPcs == {"item_check", "fb_check", "addon_check", "del_check", "copy_check"}

\* C2: every run of a worker, however it ends (cancellation, missing items,
\* addon failures, I/O exceptions), emits exactly one finished signal and
\* nothing after it: a run that has returned has one finished signal, the
\* last of its signals, and a run under way has none.
C2_ExactlyOneFinished ==
    wKind # "none" =>
        IF wPc = "done"
        THEN FinishedAt = {Len(events)}
        ELSE FinishedAt = {}

C2_Witness ==
    /\ wPc = "done" /\ wFault = "OSError" /\ cancelled
    /\ FinishedAt = {Len(events)} /\ Len(ProgressSeq) >= 2

\* C3 as stated: a run in which cancel() was called after the start of run
\* and before its finished signal, and in which nothing failed, ends with
\* finished(False, "Cancelled").
C3_CancelAnywhereEndsCancelled ==
    (wKind # "none" /\ wPc = "done" /\ cancelAt \notin {"never", "start"}
        /\ wFault = "none") =>
        LastEvent = Finished(FALSE, "Cancelled")

\* C3, amended: a run that reaches one of its polls with the flag set ends
\* at that poll, its next signal being finished(False, "Cancelled"); and only
\* a run whose flag was set ends so.
C3_CancelDetectedAtPoll ==
    [][ /\ (wPc \in CheckPcs /\ cancelled) =>
              /\ wPc' = "done"
              /\ events' = Append(events, Finished(FALSE, "Cancelled"))
        /\ (Detected' /\ ~Detected) => (wPc \in CheckPcs /\ cancelled)
      ]_vars

C3_Witness ==
    /\ wPc = "done" /\ cancelAt = "copy" /\ wIdx = 2
    /\ LastEvent = Finished(FALSE, "Cancelled")

\* C4: the step that detects the flag changes nothing on disk (nothing is
\* copied, deleted or rolled back) and is the return of run, so that no item
\* or addon after it is processed.
C4_NothingAfterDetection ==
    [][ Detected' =>
          /\ fs' = fs
          /\ wPc' = "done"
          /\ wIdx' = wIdx
          /\ Detected \/ events' = Append(events, Finished(FALSE, "Cancelled"))
      ]_vars

C4_Witness ==
    /\ Detected /\ wKind = "backup" /\ wPc = "done"
    /\ Len(wItems) = 2 /\ wIdx = 2 /\ wItems[2].path = "cfg"
    /\ Exists(Kid(Kid(fs[BakRoot], "User"), "f"))
    /\ Exists(Kid(fs[SrcRoot], "cfg")) /\ ~Exists(Kid(fs[BakRoot], "cfg"))

\* C5: the progress percents of a run never decrease and lie in 0..100, and
\* a run that ends with finished(True, _) has 100 as its last percent.
C5_ProgressMonotone ==
    LET p == ProgressSeq IN
    /\ \A i \in 1..Len(p) : p[i].n \in 0..100
    /\ \A i \in 1..(Len(p) - 1) : p[i].n <= p[i + 1].n
    /\ (wPc = "done" /\ FinishedAt # {} /\ LastEvent.ok) =>
           p # <<>> /\ p[Len(p)].n = 100

C5_Witness ==
    /\ wKind = "restore" /\ wPc = "done" /\ LastEvent = Finished(TRUE, "Restore complete")
    /\ Len(ProgressSeq) = 6
    /\ ProgressSeq[3].n = 80 /\ ProgressSeq[4].n = 87 /\ ProgressSeq[5].n = 95

\* the signals of the item at position i of backup_items
ItemProgress(i) ==
    Progress(Pct(30, i, Len(wItems), 50), "Copying", wItems[i].path)

\* C10: in a backup that was not cancelled and in which nothing failed, a
\* required item whose source does not exist leaves a [SKIP] log line right
\* before its progress signal, every item with a path is processed (its
\* progress signal is emitted; an existing one is logged [OK] and is in the
\* backup folder), and the run ends with finished(True, "Backup complete").
C10_RequiredMissingSkipped ==
    (wKind = "backup" /\ wItems # <<>> /\ wPc = "done" /\ wFault = "none" /\ ~Detected) =>
        /\ LastEvent = Finished(TRUE, "Backup complete")
        /\ \A i \in 1..Len(wItems) :
             LET item == wItems[i]
                 at == {k \in 1..Len(events) : events[k] = ItemProgress(i)}
             IN  item.path # "" =>
                   /\ at # {}
                   /\ IF Exists(Kid(fs[SrcRoot], item.path))
                      THEN /\ \E k \in at : k > 1 /\ events[k - 1] = Log("OK", item.path)
                           /\ Exists(Kid(fs[BakRoot], item.path))
                      ELSE ~item.optional =>
                             \E k \in at : k > 1 /\ events[k - 1] = Log("SKIP", item.path)

C10_Witness ==
    /\ wKind = "backup" /\ wPc = "done" /\ LastEvent = Finished(TRUE, "Backup complete")
    /\ Len(wItems) = 2 /\ wItems[1].path = "User" /\ wItems[2].path = "cfg"
    /\ ~Exists(Kid(fs[SrcRoot], "User"))
    /\ \E k \in 1..(Len(events) - 2) :
         /\ events[k] = Log("SKIP", "User")
         /\ events[k + 2] = Log("OK", "cfg")

\* C11: a step of run in which a copy, a deletion or a listing raises (past
\* the PermissionError caught in the deletion loop and the failures caught
\* per addon) is the last step of the run: it emits finished(False, str(e))
\* as the last signal and returns, no exception leaves run, and no item or
\* addon is processed after it.
C11_ExceptionEndsRun ==
    [][ wFault' # "none" =>
          /\ wPc' = "done"
          /\ LastEvent' = Finished(FALSE, wFault')
          /\ wFault = "none" => wIdx' = wIdx
          /\ wFault # "none" => UNCHANGED <<fs, events, wIdx>>
      ]_vars

C11_Witness ==
    /\ wKind = "restore" /\ wPc = "done" /\ wFault = "OSError"
    /\ Len(wList) = 2 /\ wIdx = 2 /\ Len(ProgressSeq) = 3
    /\ LastEvent = Finished(FALSE, "OSError")

\* the addon a worker at addon_copy is about to copy has something to copy
AddonCopyAttempted ==
    /\ wPc = "addon_copy"
    /\ IF wKind = "backup"
       THEN Exists(fs[wAddons[wIdx]])
       ELSE Exists(Kid(Kid(fs[BakRoot], "_addons"), Basename(wAddons[wIdx])))

\* the log lines of a failed addon copy
AddonFailures == {k \in 1..Len(events) : events[k].t = "log" /\ events[k].tag = "FAIL Addon"}

\* C12: the copy of one addon never ends the run, in backup or in restore:
\* whether it passes or raises, the step logs the outcome ([OK] or
\* "[FAIL] Addon: <name>"), emits the progress of the addon and goes on with
\* the next addon; and a run with a failed addon that is not cancelled ends
\* with finished(True, _), having emitted the progress of every addon.
C12_AddonFailureContained ==
    [][ /\ (AddonCopyAttempted /\ wPc' # wPc) =>
              /\ wPc' \in {"addon_check", "finish"}
              /\ wFault' = "none"
              /\ Len(events') = Len(events) + 2
              /\ events'[Len(events) + 1].t = "log"
              /\ events'[Len(events) + 1].tag \in {"OK Addon", "OK Addon restored", "FAIL Addon"}
              /\ events'[Len(events) + 1].arg = Basename(wAddons[wIdx])
              /\ events'[Len(events) + 2] =
                     Progress(Pct(80, wIdx, Len(wAddons), 15), "Addon", Basename(wAddons[wIdx]))
        /\ (AddonFailures # {} /\ wPc = "done" /\ ~Detected) =>
              /\ LastEvent.t = "finished" /\ LastEvent.ok
              /\ Cardinality({k \in 1..Len(events) :
                     events[k].t = "progress" /\ events[k].tag = "Addon"}) = Len(wAddons)
      ]_vars

C12_Witness ==
    /\ wPc = "done" /\ LastEvent.t = "finished" /\ LastEvent.ok
    /\ \E k \in 1..(Len(events) - 2) :
         /\ events[k] = Log("FAIL Addon", "ext")
         /\ events[k + 2].t = "log" /\ events[k + 2].tag \in {"OK Addon", "OK Addon restored"}

(***************************************************************************)
(* Properties of the process cache.                                        *)
(***************************************************************************)
\* the next statement of the operation under way is a call of
\* get_running_processes(names)
QueryPending ==
    \/ kaPc \in {"query1", "query2", "query3"}
    \/ kaPc = "idle" /\ scPc \in {"check", "final"}

\* the step makes that call
QueryStep == QueryPending /\ (kaPc' # kaPc \/ scPc' # scPc)

\* the handles cached for the names of the operation that are still alive
CachedAlive ==
    IF CacheKey(names) \in DOMAIN cache
    THEN SelectSeq(cache[CacheKey(names)], StillRunning)
    ELSE <<>>

\* the call is answered from the cache: the cached handles still alive are
\* returned, nothing is enumerated, the cache and its expiry stay
AnsweredFromCache ==
    /\ lastQuery'.enum = FALSE
    /\ lastQuery'.n = Len(CachedAlive)
    /\ UNCHANGED <<cache, ttl>>

\* C13 as stated: a call of get_running_processes made less than 2 seconds
\* after the previous call on the same ProcessKiller with the same names,
\* while a process that call found is still alive, is answered from the
\* cache.
C13_RepeatWithinTwoSeconds ==
    [][ (QueryStep /\ psutil /\ lastQuery.n > 0 /\ lastQuery.age < CacheDuration
            /\ CachedAlive # <<>>) => AnsweredFromCache ]_vars

\* C13, amended: the 2 seconds run from the call that enumerated the
\* processes and stored them (a call answered from the cache does not renew
\* them); a call made before they are over, while a stored handle is still
\* alive, is answered from the cache.
C13_CachedUntilExpiry ==
    [][ (QueryStep /\ psutil /\ ttl > 0 /\ CachedAlive # <<>>) => AnsweredFromCache ]_vars

C13_Witness ==
    /\ op = "smart_close" /\ kaPc = "kill" /\ kaTrace = <<"query">>
    /\ ~lastQuery.enum /\ lastQuery.n = 2 /\ lastQuery.age = 0 /\ ttl = 3

\* C14: without psutil a call of get_running_processes enumerates nothing,
\* logs its warning and returns the empty list; is_running is false;
\* smart_close returns (True, "psutil not available") at once, having
\* queried no process and called neither kill_all nor kill_process.
C14_NoPsutilDegrades ==
    ~psutil =>
        /\ lastQuery.n = 0 /\ ~lastQuery.enum
        /\ op # "smart_close"
        /\ ret.op = "get_running_processes" => (ret.n = 0 /\ ~ret.ok /\ lastQuery.warn)
        /\ ret.op = "is_running" => (~ret.ok /\ lastQuery.warn)
        /\ ret.op = "smart_close" =>
              /\ ret.ok /\ ret.msg = "psutil not available"
              /\ lastQuery = NoQuery
              /\ scTrace = <<>> /\ kaTrace = <<>> /\ kpTrace = <<>>
              /\ kaPc = "idle" /\ kpPc = "idle"

C14_Witness ==
    /\ ~psutil /\ ret.op = "smart_close" /\ ret.ok
    /\ \A p \in Procs : procState[p] = "alive" /\ Matches(names, p)

\* C17: is_running(N) is true exactly when the get_running_processes(N) it
\* makes returns a non-empty list: its answer is the one the state it is
\* called in gives to a call of get_running_processes, for the same outcome
\* of the enumeration, and the call leaves the cache as that call does.
C17_IsRunningIffNonEmpty ==
    [][ (CanCall /\ ret'.op = "is_running") =>
          /\ ret'.ok <=> lastQuery'.n > 0
          /\ \E u \in EnumStops :
               LET r == GetRunningProcesses(names', u) IN
               /\ ret'.ok <=> r.res # <<>>
               /\ lastQuery'.n = Len(r.res)
               /\ cache' = r.cache /\ ttl' = r.ttl
      ]_vars

C17_Witness ==
    /\ ret.op = "is_running" /\ ret.ok /\ lastQuery.n = 1 /\ lastQuery.enum
    /\ names = <<StrVim, StrCode>> /\ procState = <<"dead", "alive">>

(***************************************************************************)
(* Properties of wait_for_exit.                                            *)
(***************************************************************************)
\* no process matching the names of the operation has run so far
NeverRan == \A p \in Procs : Matches(names, p) => procState[p] = "unborn"

\* C16 as stated, for any timeout >= 0: wait_for_exit returns True when no
\* matching process runs at the call (here: none has run at all up to the
\* return), and False only after polls that all found one running.
C16_TrueWheneverQuiet ==
    ret.op = "wait_for_exit" =>
        /\ NeverRan => ret.ok
        /\ ~ret.ok => \A i \in 1..Len(wfPolls) : wfPolls[i]

\* C16, amended to a timeout above 0: the first poll is made at the call,
\* the next ones 0.5 s apart while the timeout has not elapsed; the call
\* returns True at the first poll that finds no matching process and False
\* only when the timeout has elapsed after polls that all found one.  With
\* timeout 0 no poll is made and the call returns False.
C16_WaitForExit ==
    ret.op = "wait_for_exit" =>
        /\ ret.ok <=> (wfPolls # <<>> /\ ~wfPolls[Len(wfPolls)])
        /\ \A i \in 1..(Len(wfPolls) - 1) : wfPolls[i]
        /\ Len(wfPolls) <= Ticks(timeout)
        /\ ~ret.ok => wfElapsed >= Ticks(timeout)
        /\ timeout > 0 => wfPolls # <<>>
        /\ (timeout > 0 /\ NeverRan) => (ret.ok /\ Len(wfPolls) = 1)
        /\ timeout = 0 => (~ret.ok /\ wfPolls = <<>>)

C16_Witness ==
    /\ ret.op = "wait_for_exit" /\ ret.ok /\ timeout = 1
    /\ wfPolls = <<TRUE, FALSE>> /\ wfElapsed = 1

(***************************************************************************)
(* Properties of the flow of smart_close.                                  *)
(***************************************************************************)
\* the events kill_all calls so far
KillAllCalls(i) == Count(SubSeq(scTrace, 1, i), "kill_all")

\* what may come before the event at position i of a smart_close
ScFollows(i) ==
    LET ev == scTrace[i]
        prev == IF i > 1 THEN scTrace[i - 1] ELSE "start"
    IN  CASE ev = "is_running" ->
               \/ prev = "start" /\ maxRetries >= 1
               \/ prev = "sleep2" /\ i > 2 /\ scTrace[i - 2] = "failed"
          [] ev = "kill_all" -> prev = "is_running"
          [] ev \in {"closed", "failed"} -> prev = "kill_all"
          [] ev = "sleep2" ->
               \/ prev = "is_running"
               \/ prev = "failed" /\ KillAllCalls(i) < maxRetries
          [] ev = "sleep3" -> prev \in {"closed", "query"}
          [] ev = "query" ->
               \/ prev = "start" /\ maxRetries = 0
               \/ prev = "failed" /\ KillAllCalls(i) = maxRetries
          [] OTHER -> FALSE

\* the events after which smart_close has returned
ScEnded(i) ==
    \/ scTrace[i] = "sleep3"
    \/ scTrace[i] = "sleep2" /\ i > 1 /\ scTrace[i - 1] = "is_running"

\* C18: smart_close runs CheckRunning -> Closing -> Settling -> Done.  Every
\* attempt starts with an is_running check; a check that finds nothing goes
\* to the settle and the success without a kill_all; kill_all is called
\* again only after a failed kill_all and a retry sleep, while attempts
\* remain, and at most max_retries times; and smart_close returns.
C18_SmartCloseFlow ==
    /\ [](\A i \in 1..Len(scTrace) :
             /\ ScFollows(i)
             /\ ScEnded(i) => (i = Len(scTrace) /\ ret.op = "smart_close" /\ ret.ok))
    /\ [](Count(scTrace, "kill_all") <= maxRetries)
    /\ [][ (scPc = "check" /\ scPc' # "check") =>
              IF lastQuery'.n = 0
              THEN scPc' = "settle_notrunning" /\ kaPc' = "idle" /\ UNCHANGED kaTrace
              ELSE scPc' = "closing" /\ kaPc' = "query1" ]_vars
    /\ (op = "smart_close" ~> ret.op = "smart_close")

C18_Witness ==
    /\ ret.op = "smart_close" /\ ret.ok /\ maxRetries = 2
    /\ scTrace = <<"is_running", "kill_all", "failed", "sleep2",
                   "is_running", "kill_all", "closed", "sleep3">>

\* the last event of a smart_close so far
ScLast == IF scTrace = <<>> THEN "start" ELSE scTrace[Len(scTrace)]

\* the settle sleep that follows the event ev: its name and its length
SettleAfter(ev) ==
    CASE ev = "is_running" -> [name |-> "sleep2", ticks |-> NotRunningSettle,
                               msg |-> "is not running"]
      [] ev = "closed"     -> [name |-> "sleep3", ticks |-> ClosedSettle,
                               msg |-> "closed"]
      [] OTHER             -> [name |-> "sleep3", ticks |-> FinalSettle,
                               msg |-> "closed after retries"]

\* C19: with psutil present, the step on which smart_close returns success
\* is a settle sleep: 2 s after an is_running that found nothing, 3 s after a
\* successful kill_all, 3 s after the query that follows the last failed
\* attempt and finds no survivor; that step makes no query and kills
\* nothing.  The step on which it returns failure is the final query, and
\* the only sleeps before it are the sleeps between attempts.
C19_SettleBeforeSuccess ==
    [][ (op = "smart_close" /\ ret'.op = "smart_close") =>
          IF ret'.ok
          THEN /\ ScLast \in {"is_running", "closed", "query"}
               /\ scTrace' = Append(scTrace, SettleAfter(ScLast).name)
               /\ ret'.msg = SettleAfter(ScLast).msg
               /\ ttl' = After(ttl, SettleAfter(ScLast).ticks)
               /\ lastQuery' = [lastQuery EXCEPT !.age = CacheDuration]
               /\ ScLast \in {"is_running", "query"} => lastQuery.n = 0
               /\ ScLast = "query" => Count(scTrace, "failed") = maxRetries
               /\ UNCHANGED <<procState, cache, kaTrace, kpTrace>>
          ELSE /\ scTrace' = Append(scTrace, "query")
               /\ lastQuery'.age = 0 /\ lastQuery'.n > 0
               /\ Count(scTrace', "sleep3") = 0
               /\ \A i \in 1..Len(scTrace) :
                     scTrace[i] = "sleep2" =>
                        /\ i > 1 /\ scTrace[i - 1] = "failed"
                        /\ i < Len(scTrace) /\ scTrace[i + 1] = "is_running" ]_vars

C19_Witness ==
    /\ ret.op = "smart_close" /\ ret.ok /\ ret.msg = "closed after retries"
    /\ maxRetries = 2
    /\ scTrace = <<"is_running", "kill_all", "failed", "sleep2",
                   "is_running", "kill_all", "failed", "query", "sleep3">>

(***************************************************************************)
(* Properties of run_in_thread.                                            *)
(***************************************************************************)
\* the thread has quit, and worker and thread are given to deleteLater
Released == thPc = "finished" /\ wDel = "later" /\ thDel = "later"

\* C15: on a thread built by run_in_thread and started by the caller, run
\* executes on that thread; finished is emitted exactly once; nothing but
\* that signal makes the thread quit and hands the worker, and then the
\* thread, to deleteLater; and every started worker ends up released.
C15_ThreadLifecycle ==
    /\ [][wPc' # wPc => (thPc = "running" /\ thPc' = "running")]_vars
    /\ [](Emitted <= 1 /\ thDispatched <= Emitted)
    /\ [](thPc \in {"exec", "finished"} => (Emitted = 1 /\ thDispatched = 1))
    /\ []((thQuit # "no" \/ wDel # "no") => thDispatched = 1)
    /\ [](thDispatched = 1 => (thQuit # "no" /\ wDel = "later"))
    /\ [](thPc = "finished" => thQuit = "exit")
    /\ [](thDel # "no" <=> thPc = "finished")
    /\ (thPc = "started" ~> Released)

C15_Witness ==
    /\ Released
    /\ events[Len(events)] = Finished(FALSE, "Cancelled")

(***************************************************************************)
(* Properties of the handlers of the account tab.                          *)
(***************************************************************************)
\* C20: a transfer is started only when the close step has established
\* that the app is not running: the handler's query found no matching
\* process, or smart_close returned success; not when the user declined the
\* box, and not when smart_close failed.
C20_TransferOnlyWhenClosed ==
    guiPc = "started" =>
        \/ ~guiFound
        \/ guiAnswer = "ok" /\ ret.op = "smart_close" /\ ret.ok

(***************************************************************************)
(* Further properties of the transfer workers.                             *)
(***************************************************************************)
\* the step of BackupWorker.run that handles the declared item at wIdx,
\* when that item has a path and nothing exists at it under source_path
MissingItemStep ==
    /\ wKind = "backup" /\ wPc = "item_copy" /\ wPc' # "item_copy"
    /\ wItems[wIdx].path # ""
    /\ ~Exists(Kid(fs[SrcRoot], wItems[wIdx].path))

\* C25: the step that handles a declared item whose source does not exist,
\* required or optional, emits a log line about that item and raises
\* nothing (the run goes on, no failure result comes of it).
C25_MissingAlwaysLogged ==
    [][ MissingItemStep =>
          /\ wFault' = "none"
          /\ \E k \in (Len(events) + 1)..Len(events') :
               events'[k].t = "log" /\ events'[k].arg = wItems[wIdx].path
      ]_vars

\* the entries of the folder to clear whose deletion was refused
Warned == {events[k].arg : k \in {j \in 1..Len(events) :
               events[j].t = "log" /\ events[j].tag = "WARN Cannot delete"}}

\* C27: a PermissionError raised while RestoreWorker deletes an entry of
\* target_path never ends the run: the step logs "[WARN] Cannot delete:
\* <entry>" and goes on with the next entry of the listing, or with the
\* copy phase after the last one; and a run with such a warning that is
\* neither cancelled nor failed elsewhere has deleted every other entry
\* that was there (or replaced it by the backup's entry of that name), has
\* run the copy phase and ends with finished(True, "Restore complete").
C27_PermissionErrorContained ==
    [][ /\ (wKind = "restore" /\ wPc = "del" /\ wPc' # "del") =>
              /\ wFault' # "PermissionError"
              /\ (wFault' = "none" /\ events' # events) =>
                    /\ events' = Append(events, Log("WARN Cannot delete", wList[wIdx]))
                    /\ IF wIdx < Len(wList)
                       THEN wPc' = "del_check" /\ wIdx' = wIdx + 1
                       ELSE wPc' = "list"
        /\ (wKind = "restore" /\ Warned # {} /\ wPc = "done" /\ wFault = "none" /\ ~Detected) =>
              /\ LastEvent = Finished(TRUE, "Restore complete")
              /\ \E k \in 1..Len(events) : events[k] = Progress(30, "Restoring data...", "")
              /\ \A n \in Listing(fs0[SrcRoot]) \ Warned :
                    IF n \in Listing(fs[BakRoot]) \ {"_addons"}
                    THEN Kid(fs[SrcRoot], n) = Kid(fs[BakRoot], n)
                    ELSE ~Exists(Kid(fs[SrcRoot], n))
      ]_vars

\* the deletion of "User" was refused, "cfg" was deleted all the same, the
\* backup's entries were copied and the run ended well
C27_Witness ==
    /\ wKind = "restore" /\ wPc = "done" /\ wFault = "none"
    /\ Warned = {"User"}
    /\ Exists(Kid(fs0[SrcRoot], "cfg")) /\ ~Exists(Kid(fs[SrcRoot], "cfg"))
    /\ \E k \in 1..Len(events) : events[k].t = "progress" /\ events[k].tag = "Restoring"
    /\ LastEvent = Finished(TRUE, "Restore complete")

\* the declared items that have a path, by index and in declared order,
\* and the progress signal each of them is due
ItemIdx == SelectSeq([i \in 1..Len(wItems) |-> i], LAMBDA i : wItems[i].path # "")
ItemsDue == [k \in 1..Len(ItemIdx) |-> ItemProgress(ItemIdx[k])]

\* the progress signals of the item phase, in the order emitted
ItemsDone == SelectSeq(events, LAMBDA e : e.t = "progress" /\ e.tag \in {"Copying", "Restoring"})

\* positions of the signals of the item phase and of the addon phase
ItemAt == {k \in 1..Len(events) : events[k].tag \in {"Copying", "Restoring", "OK", "SKIP"}}
AddonAt == {k \in 1..Len(events) :
              events[k].tag \in {"Backing up addons", "Restoring addons", "Addon",
                                 "OK Addon", "OK Addon restored", "FAIL Addon"}}

\* the signal between the two phases of a restore, and where it is
CopyPhase == Progress(30, "Restoring data...", "")
CopyPhaseAt == {k \in 1..Len(events) : events[k] = CopyPhase}

\* C29: the items are processed in declared order (the entries of a listing
\* in the order of the listing); no signal of the addon phase is emitted
\* before every item has been processed; in a restore nothing is copied
\* into target_path before the deletion loop has been through every entry
\* of it; and the [OK] or [SKIP] log line of an item comes right before the
\* progress signal of that item.
C29_PhaseOrder ==
    /\ Len(ItemsDone) <= (IF wItems # <<>> THEN Len(ItemsDue) ELSE Len(wList))
    /\ \A k \in 1..Len(ItemsDone) :
          ItemsDone[k] = IF wItems # <<>> THEN ItemsDue[k]
                         ELSE Progress(Pct(30, k, Len(wList), 50),
                                       IF wKind = "backup" THEN "Copying" ELSE "Restoring",
                                       wList[k])
    /\ AddonAt # {} =>
          /\ Len(ItemsDone) = (IF wItems # <<>> THEN Len(ItemsDue) ELSE Len(wList))
          /\ \A j \in ItemAt, k \in AddonAt : j < k
    /\ wKind = "restore" =>
          /\ \A k \in 1..Len(events) :
                /\ events[k].tag = "WARN Cannot delete" => \A m \in CopyPhaseAt : k < m
                /\ events[k].tag = "Restoring" => \E m \in CopyPhaseAt : m < k
          /\ IF CopyPhaseAt = {}
             THEN \A n \in Listing(fs[SrcRoot]) :
                     Kid(fs[SrcRoot], n) \in PartlyRemoved(Kid(fs0[SrcRoot], n))
             ELSE \A n \in Listing(fs0[SrcRoot]) \ Warned :
                     \/ ~Exists(Kid(fs[SrcRoot], n))
                     \/ \E k \in 1..Len(events) : events[k].tag = "Restoring" /\ events[k].arg = n
                     \/ wFault # "none" /\ wPc = "done" /\ wList[wIdx] = n
    /\ \A k \in 1..Len(events) :
          events[k].tag \in {"OK", "SKIP"} =>
             /\ k < Len(events)
             /\ events[k + 1].t = "progress" /\ events[k + 1].tag = "Copying"
             /\ events[k + 1].arg = events[k].arg

\* a backup that declares "cfg" before "User", both there, and two addons
C29_Witness ==
    /\ wKind = "backup" /\ wPc = "done" /\ LastEvent = Finished(TRUE, "Backup complete")
    /\ Len(wItems) = 2 /\ wItems[1].path = "cfg" /\ wItems[2].path = "User"
    /\ Len(wAddons) = 2
    /\ \E k \in 1..(Len(events) - 4) :
          /\ events[k] = Log("OK", "cfg") /\ events[k + 1] = ItemProgress(1)
          /\ events[k + 2] = Log("OK", "User") /\ events[k + 3] = ItemProgress(2)
          /\ events[k + 4] = Log("Backing up addons", "")

\* Everything that was at `old` is still at `new`: a directory is still a
\* directory with every entry it had, a file is still a file, and its data
\* is what it was or the data of a source file at the same relative path
\* (`srcs`: the nodes at that path under the folders copied from).
RECURSIVE Kept(_, _, _)
Kept(old, new, srcs) ==
    CASE old.kind = "none" -> TRUE
      [] old.kind = "file" ->
            /\ new.kind = "file"
            /\ \/ new.data = old.data
               \/ \E x \in srcs : x.kind = "file" /\ x.data = new.data
      [] OTHER ->
            /\ new.kind = "dir"
            /\ \A n \in DOMAIN old.kids :
                  Kept(old.kids[n], Kid(new, n), {Kid(x, n) : x \in srcs})

\* the backup folder kept what it had: its entries against those of
\* source_path, the entries of "_addons" against the addon folders of
\* that name
BackupKept ==
    LET old == fs0[BakRoot]
        new == fs[BakRoot]
    IN  IF IsDir(old) /\ IsDir(Kid(old, "_addons"))
        THEN /\ Kept(Remove(old, "_addons"), new, {fs0[SrcRoot]})
             /\ \A m \in Listing(Kid(old, "_addons")) :
                   Kept(Kid(Kid(old, "_addons"), m), Kid(Kid(new, "_addons"), m),
                        {fs0[a] : a \in {b \in AddonPaths : Basename(b) = m}})
        ELSE Kept(old, new, {fs0[SrcRoot]})

\* C28: at every point of a BackupWorker run, source_path and the addon
\* folders are as they were when the worker was built, and the backup
\* folder still has every entry it had: directories are merged into, and a
\* file differs from what it was only by holding the data of the source
\* file at the same relative path.
C28_BackupOnlyAdds ==
    wKind = "backup" =>
        /\ fs[SrcRoot] = fs0[SrcRoot]
        /\ \A a \in AddonPaths : fs[a] = fs0[a]
        /\ BackupKept

\* C22: in a RestoreWorker run that ended with finished(False, "Cancelled"),
\* every entry target_path had when the run began is still there as it
\* was, or is now the backup's entry of the same name.
C22_CancelKeepsEntries ==
    (wKind = "restore" /\ wPc = "done" /\ Detected) =>
        \A n \in Listing(fs0[SrcRoot]) :
            \/ Kid(fs[SrcRoot], n) = Kid(fs0[SrcRoot], n)
            \/ /\ n \in Listing(fs[BakRoot]) \ {"_addons"}
               /\ Kid(fs[SrcRoot], n) = Kid(fs[BakRoot], n)

\* C21: when the deletion loop of a restore is over (progress 30 has just
\* been emitted), target_path holds none of the entries it had, apart from
\* those whose deletion was refused, except "_addons", which is there as
\* it was.
C21_AddonsLeftInPlace ==
    (wKind = "restore" /\ wPc # "done" /\ events # <<>> /\ LastEvent = CopyPhase) =>
        /\ Listing(fs[SrcRoot]) \ Warned \subseteq {"_addons"}
        /\ Kid(fs[SrcRoot], "_addons") = Kid(fs0[SrcRoot], "_addons")

(***************************************************************************)
(* Properties of a ProcessKiller that is queried several times.            *)
(***************************************************************************)
\* the step is one of the caller's get_running_processes calls
AnotherQuery == qLeft' = qLeft - 1

\* the names of a list, as a set
NameSet(nms) == {nms[i] : i \in 1..Len(nms)}

\* C23: a call of get_running_processes that is answered from the cache
\* finds an entry of its own key that was stored no more than 2 seconds
\* before; so a call made more than 2 seconds after the entry of its key was
\* stored enumerates again, whatever was asked about other names in between.
C23_FreshAfterTwoSeconds ==
    [][ (AnotherQuery /\ ~lastQuery'.enum) =>
          /\ CacheKey(names') \in DOMAIN qBorn
          /\ qBorn[CacheKey(names')] <= CacheDuration
      ]_vars

C30_SameSetSameEntry ==
    [][ AnotherQuery =>
          \A k \in DOMAIN cache :
             (/\ NameSet(k) = NameSet(names')
              /\ ttl > 0
              /\ SelectSeq(cache[k], StillRunning) # <<>>) =>
                 /\ ~lastQuery'.enum
                 /\ qSeen'.res = SelectSeq(cache[k], StillRunning)
      ]_vars

(***************************************************************************)
(* Properties of two workers at once.                                      *)
(***************************************************************************)
\* the signals end with a finished, the only one among them
OneFinishedLast(ev) ==
    /\ ev # <<>>
    /\ ev[Len(ev)].t = "finished"
    /\ Cardinality({i \in 1..Len(ev) : ev[i].t = "finished"}) = 1

\* C26: with a second operation started while the first worker is held by
\* the tab, a worker that no longer runs has emitted its own finished
\* signal, once and as its last signal: both workers run to their end under
\* every interleaving.
C26_EachWorkerFinishes ==
    /\ wPc \in {"done", "aborted"} => OneFinishedLast(events)
    /\ (peer # NoPeer /\ peer.pc \in {"done", "aborted"}) => OneFinishedLast(peer.events)

(***************************************************************************)
(* Properties of the progress values and of the error paths of a run.      *)
(***************************************************************************)
\* C31: every progress value of the item phase (declared items, entries of
\* the fallback listing, entries restored) lies in 30..80, every progress
\* value of the addon phase lies in 80..95, and what a restore emits before
\* the signal that opens its copy phase lies in 0..30.
C31_ProgressRanges ==
    \A k \in 1..Len(events) :
        LET ev == events[k] IN
        ev.t = "progress" =>
            /\ ev.tag \in {"Copying", "Restoring"} => ev.n \in 30..80
            /\ ev.tag = "Addon" => ev.n \in 80..95
            /\ (wKind = "restore" /\ \A m \in CopyPhaseAt : k <= m) => ev.n \in 0..30

\* two items and two addons: the values 55, 80, 87 and 95 were all emitted
C31_Witness ==
    /\ wPc = "done" /\ Len(wAddons) = 2
    /\ \E a, b, c, d \in 1..Len(events) :
          /\ a < b /\ b < c /\ c < d
          /\ events[a].tag \in {"Copying", "Restoring"} /\ events[a].n = 55
          /\ events[b].tag \in {"Copying", "Restoring"} /\ events[b].n = 80
          /\ events[c].tag = "Addon" /\ events[c].n = 87
          /\ events[d].tag = "Addon" /\ events[d].n = 95

\* the step of the addon loop of a backup for a path that is not on disk
MissingAddonStep ==
    /\ wKind = "backup" /\ wPc = "addon_copy" /\ wPc' # "addon_copy"
    /\ ~Exists(fs[wAddons[wIdx]])

\* C32: an addon path of a backup that does not exist on disk is skipped:
\* at any position of the list its step copies nothing, raises nothing and
\* emits no finished(false, _).
C32_MissingAddonSkipped ==
    [][ MissingAddonStep =>
          /\ fs' = fs
          /\ wFault' = "none"
          /\ \A k \in (Len(events) + 1)..Len(events') : events'[k].t # "finished"
      ]_vars

\* the step of a restore that lists the backup folder and fails
ListFails == wKind = "restore" /\ wPc = "list" /\ wPc' = "done"

\* C33: a restore that fails because the backup folder is missing or cannot
\* be listed has deleted nothing: the target folder is as it was when the
\* worker was built.
C33_NoDeletionWithoutBackup ==
    [][ ListFails => fs'[SrcRoot] = fs0[SrcRoot] ]_vars

\* cancel() was called before the first statement of run()
CancelledBeforeRun == cancelled /\ cancelAt = "start"

\* the folders a backup creates before its first poll: the backup folder
\* (line 33) and its "_addons" (line 90)
DirsMade(bak) ==
    LET made == IF Exists(bak) THEN bak ELSE EmptyDir
    IN  {bak, made} \cup
        (IF IsDir(made) /\ ~Exists(Kid(made, "_addons"))
         THEN {Put(made, "_addons", EmptyDir)} ELSE {})

\* no file was copied and no entry deleted since the worker was built
OnlyDirsMade ==
    /\ \A l \in Locations \ {BakRoot} : fs[l] = fs0[l]
    /\ fs[BakRoot] \in (IF wKind = "backup" THEN DirsMade(fs0[BakRoot]) ELSE {fs0[BakRoot]})

\* a loop of run() has at least one round to make
ToProcess ==
    IF wKind = "backup"
    THEN \/ wItems # <<>>
         \/ wItems = <<>> /\ IsDir(fs0[SrcRoot]) /\ Listing(fs0[SrcRoot]) # {}
         \/ wAddons # <<>>
    ELSE \/ IsDir(fs0[SrcRoot]) /\ Listing(fs0[SrcRoot]) # {}
         \/ IsDir(fs0[BakRoot]) /\ Listing(fs0[BakRoot]) \ {"_addons"} # {}
         \/ /\ IsDir(fs0[BakRoot]) /\ Exists(Kid(fs0[BakRoot], "_addons"))
            /\ wAddons # <<>>

\* C38 as stated: after a cancel() that precedes run(), nothing is copied or
\* deleted, and a run with an item, entry or addon to process ends with
\* finished(false, "Cancelled").
C38_CancelBeforeRun_AsStated ==
    CancelledBeforeRun =>
        /\ OnlyDirsMade
        /\ (wPc = "done" /\ ToProcess) => LastEvent = Finished(FALSE, "Cancelled")

\* C38: after a cancel() that precedes run(), nothing is copied or deleted
\* (only the backup folder and its "_addons" may be created), and a run with
\* an item, entry or addon to process ends with finished(false, "Cancelled")
\* unless a makedirs or listdir made before the first poll raised, which ends
\* it with finished(false, <the error>).
C38_CancelBeforeRun ==
    CancelledBeforeRun =>
        /\ OnlyDirsMade
        /\ (wPc = "done" /\ ToProcess) =>
              \/ LastEvent = Finished(FALSE, "Cancelled")
              \/ wFault = "OSError" /\ LastEvent = Finished(FALSE, "OSError")

\* a cancelled backup of declared items made its folder and stopped; a
\* cancelled restore stopped with the target untouched
C38_Witness ==
    /\ CancelledBeforeRun /\ wPc = "done" /\ ToProcess
    /\ LastEvent = Finished(FALSE, "Cancelled")
    /\ \/ wKind = "backup" /\ wItems # <<>> /\ ~Exists(fs0[BakRoot]) /\ fs[BakRoot] = EmptyDir
       \/ wKind = "restore" /\ fs0[SrcRoot] = SrcFull /\ fs0[BakRoot] = BakFull

(***************************************************************************)
(* Properties of what get_running_processes returns and of the verdicts    *)
(* built on it.                                                            *)
(***************************************************************************)
\* the handles of the list cached under the key of nms
CachedUnder(nms) ==
    IF CacheKey(nms) \in DOMAIN cache
    THEN {cache[CacheKey(nms)][i] : i \in 1..Len(cache[CacheKey(nms)])}
    ELSE {}

\* C39: every handle a call of get_running_processes returns is a process
\* that runs at the call: one the enumeration of this call found, or one of
\* the cached list of an unexpired cache that passed is_running(); no handle
\* of an exited process is returned, and no cache entry is an empty list.
C39_ReturnedHandlesAreLive ==
    [][ AnotherQuery =>
          /\ \A i \in 1..Len(qSeen'.res) :
                LET h == qSeen'.res[i] IN
                /\ procState[h] = "alive"
                /\ IF lastQuery'.enum
                   THEN Matches(names', h)
                   ELSE ttl > 0 /\ h \in CachedUnder(names')
          /\ \A k \in DOMAIN cache' : cache'[k] # <<>>
      ]_vars

\* a cache hit that left out a cached handle whose process had exited
C39_Witness ==
    /\ qSeen.res # <<>> /\ ~lastQuery.enum /\ lastQuery.age = 0
    /\ \E h \in CachedUnder(qSeen.names) :
          /\ procState[h] = "dead"
          /\ \A i \in 1..Len(qSeen.res) : qSeen.res[i] # h

\* C34 as stated: kill_all returns success, and smart_close returns success
\* when psutil is available, only after a last query that enumerated the
\* processes and found none.
C34_SuccessFromFreshScan_AsStated ==
    /\ (ret.op = "kill_all" /\ ret.ok) => (lastQuery.enum /\ lastQuery.n = 0)
    /\ (ret.op = "smart_close" /\ ret.ok /\ psutil) => (lastQuery.enum /\ lastQuery.n = 0)

\* C34: with psutil available, a success of kill_all (returned to the caller
\* or to smart_close) and a success of smart_close follow a last query that
\* enumerated the processes and found none; a list of cached handles never
\* yields the verdict.
C34_SuccessFromFreshScan ==
    psutil =>
       /\ (ret.op \in {"kill_all", "smart_close"} /\ ret.ok) =>
              (lastQuery.enum /\ lastQuery.n = 0)
       /\ (kaPc = "ret" /\ kaRet.ok) => (lastQuery.enum /\ lastQuery.n = 0)

\* kill_all reported success while the list it had cached was not expired
C34_Witness ==
    /\ psutil /\ ret.op = "kill_all" /\ ret.ok
    /\ ttl > 0 /\ CacheKey(names) \in DOMAIN cache
    /\ lastQuery.enum /\ lastQuery.n = 0

(***************************************************************************)
(* Properties of a backup followed by a restore of what it wrote.          *)
(***************************************************************************)
\* the restore that followed the backup has ended in success
RoundTripDone ==
    /\ wKind = "restore" /\ peer # NoPeer /\ wPc = "done"
    /\ LastEvent = Finished(TRUE, "Restore complete")

\* nothing was reported as not deleted or not copied in either run
NothingReported ==
    /\ \A k \in 1..Len(events) : events[k].tag \notin {"WARN Cannot delete", "FAIL Addon"}
    /\ \A k \in 1..Len(peer.events) : peer.events[k].tag \notin {"FAIL", "FAIL Addon"}

\* C35: a backup with no item list and no addons into an empty backup
\* folder, then a restore from it, both successful: the data folder has the
\* top-level entries it had at backup time, whatever their names.
C35_MainDataRoundTrip ==
    (RoundTripDone /\ NothingReported /\ peer.items = <<>> /\ wAddons = <<>>)
        => Listing(fs[SrcRoot]) = Listing(fs0[SrcRoot])

\* C36: a backup and then a restore with the same addon list (the data
\* folder itself holding no "_addons"): every addon path that existed at
\* backup time holds what it held then, also when two paths of the list have
\* the same base name.
C36_AddonRoundTrip ==
    (RoundTripDone /\ NothingReported /\ ~Exists(Kid(fs0[SrcRoot], "_addons"))) =>
        \A i \in 1..Len(wAddons) :
            Exists(fs0[wAddons[i]]) => fs[wAddons[i]] = fs0[wAddons[i]]

\* C37: what _on_restore_finished reports as restored, and makes active,
\* after a finished(true, _) is the session of the worker that emitted the
\* signal, also when another restore was launched in between.
C37_ReportsOwnSession ==
    \A r \in tab.said : r.name = r.by

=============================================================================
